---- MODULE Spec2Model ----
(***************************************************************************)
(* The ingestion pipeline of the ingestion service: admission              *)
(* (IngestionService.ingest_document), the per-task coroutine              *)
(* (_process_document_async), the embedding callback handler               *)
(* (handle_embedding_callback), the vector writer                          *)
(* (QdrantHandler.store_chunks) and the documents_rag insert               *)
(* (_persist_document_metadata).  One step of the model is one run of a    *)
(* coroutine between two awaits: the service runs on one asyncio loop, so  *)
(* coroutines interleave only where they await.                            *)
(***************************************************************************)
EXTENDS Integers, Sequences, FiniteSets, TLC

(* ------------------------------ bounds -------------------------------- *)

\* ingest_document calls made in one run (each draws a fresh task_id)
MaxRequests == 1
\* ingestion.embedding_callback actions delivered in one run
MaxCallbacks == 2
\* chunks the parser may produce for one document
MaxChunks == 2
\* documents in the vector store when a search, a delete or an update runs
MaxDocuments == 2
\* the largest top_k / limit of a search
MaxTopK == 2
\* the longest agent_ids list of an update request
MaxAgentArgs == 2
\* update operations applied in a row
MaxUpdates == 2
\* get_agent_configs calls of one run, all for one (tenant_id, agent_id)
MaxLookups == 2
\* versions the agents row of that agent goes through (writes + 1)
MaxVersions == 2
\* chat messages received in one run
MaxChats == 2
\* conversation workers reading the same queue
MaxWorkers == 2
\* actions the workers take off the queue in one run
MaxActions == 3
\* generate_embeddings calls made in one run
MaxSends == 2
\* get_task_status calls made in one run
MaxStatusCalls == 2

TaskIds == 1..MaxRequests
HandlerIds == 1..MaxCallbacks

Tenants == {"tenant_x"}
\* collection_id of a request; NoCollection is a request without one
NoCollection == "absent"
RequestCollections == {"col_Y", NoCollection}
\* (embedding_model, embedding_dimensions) of the rag_config of a request
RagConfigs ==
    { [embedding_model |-> "model_A", embedding_dimensions |-> 1536],
      [embedding_model |-> "model_A", embedding_dimensions |-> 3072] }
\* (embedding_model, embedding_dimensions) an embedding callback reports
ReportedConfigs ==
    RagConfigs \cup { [embedding_model |-> "model_B", embedding_dimensions |-> 1536] }

(* ------------------------- values of the code ------------------------- *)

PROCESSING == "PROCESSING"
CHUNKING == "CHUNKING"
EMBEDDING == "EMBEDDING"
STORING == "STORING"
COMPLETED == "COMPLETED"
FAILED == "FAILED"
IngestionStatus == {PROCESSING, CHUNKING, EMBEDDING, STORING, COMPLETED, FAILED}

\* error=None, the default of _update_progress; `if error:` treats "" alike
NoError == ""
TypeErrorProcessDocument == "process_document() missing 3 required positional arguments"
TypeErrorGenerateEmbeddings == "generate_embeddings() got an unexpected keyword argument 'agent_ids'"
ParseError == "file exceeds maximum size"
SendError == "broker unavailable"
KeyErrorEmbeddings == "'embeddings'"

(* ------------------------------- state -------------------------------- *)

VARIABLES
    tasks,          \* self._tasks: task_id -> task dict
    kv,             \* shared KV, key ingestion:task:<task_id> -> saved task
    events,         \* per task_id, the progress events handed to the fan-out
    documents_rag,  \* rows of the relational table documents_rag
    points,         \* points of the vector collection, one per chunk_id
    main,           \* per task_id, where its _process_document_async stands
    sent,           \* per task_id, embedding.batch_process actions sent
    handlers,       \* per delivered callback, where its handler stands
    ncalls,         \* ingest_document calls made so far
    lastIngest,     \* what the last ingest_document call saw and returned
    lastSearch,     \* the last vector search: its arguments and its outcome
    deleteOp,       \* where a delete_document call stands, and what it saw
    updateOp,       \* where an update_document_agents call stands
    agentLaw,       \* an agent list and the update operations applied to it
    storeOp,        \* the last store_chunks call and what it returned
    local_cache,    \* ConfigHandler._local_cache
    redis_cache,    \* the agent_config entries of the shared cache
    agents,         \* the agents table: the authoritative config
    lookups,        \* per get_agent_configs call, where it stands
    invalidation,   \* where invalidate_agent_config stands
    normalizer,     \* the agent row last normalized, and what came out
    chats,          \* per process_chat_message call, where it stands
    wire,           \* what the orchestrator sent, in order: session
                    \* messages and actions
    conversations,  \* rows of the relational table conversations
    messages,       \* rows of the relational table messages, in insert order
    workers,        \* per conversation worker, the action it is handling
    embedOp,        \* the last generate_embeddings call and what it sent
    statusOp        \* the last get_task_status call and what it returned

configVars == <<local_cache, redis_cache, agents, lookups, invalidation>>

\* the agent normalizer, the chat dispatch and the conversation service
serviceVars == <<normalizer, chats, wire, conversations, messages, workers,
                 embedOp, statusOp>>

\* the state of the operations outside the ingestion pipeline
otherVars == <<lastSearch, deleteOp, updateOp, agentLaw, storeOp, local_cache,
               redis_cache, agents, lookups, invalidation, normalizer, chats,
               wire, conversations, messages, workers, embedOp, statusOp>>

\* the state of the ingestion pipeline, the two stores apart
ingestionVars == <<tasks, kv, events, main, sent, handlers, ncalls, lastIngest>>

vars == <<tasks, kv, events, documents_rag, points, main, sent, handlers,
          ncalls, lastIngest, lastSearch, deleteOp, updateOp, agentLaw, storeOp,
          local_cache, redis_cache, agents, lookups, invalidation,
          normalizer, chats, wire, conversations, messages, workers,
          embedOp, statusOp>>

SearchIdle == lastSearch = [outcome |-> "none"]
DeleteIdle == deleteOp = [pc |-> "idle"]
UpdateIdle == updateOp = [pc |-> "idle"]
LawIdle == agentLaw = [applied |-> <<>>]
StoreIdle == storeOp = [calls |-> 0]
ConfigIdle ==
    /\ local_cache = <<>>
    /\ redis_cache = <<>>
    /\ agents = <<>>
    /\ lookups = <<>>
    /\ invalidation = [pc |-> "idle"]
NormalizerIdle == normalizer = [pc |-> "idle"]
ChatIdle == chats = <<>> /\ wire = <<>>
ConversationIdle == conversations = {} /\ messages = <<>> /\ workers = <<>>
EmbedIdle == embedOp = [calls |-> 0]
StatusIdle == statusOp = [calls |-> 0]
ServicesIdle ==
    NormalizerIdle /\ ChatIdle /\ ConversationIdle /\ EmbedIdle /\ StatusIdle

\* no operation outside the ingestion pipeline was called
OthersIdle ==
    /\ SearchIdle
    /\ DeleteIdle
    /\ UpdateIdle
    /\ LawIdle
    /\ StoreIdle
    /\ ConfigIdle
    /\ ServicesIdle

\* what documents_rag may hold when the service starts: nothing, or the row
\* of a document another run of the service ingested into col_Y
PriorRows ==
    { [inserted_by |-> 0, tenant_id |-> "tenant_x", collection_id |-> "col_Y",
       document_id |-> 0, embedding_model |-> "model_A",
       embedding_dimensions |-> 1536, total_chunks |-> 0,
       processed_chunks |-> 0] }

\* the handler of a callback that was not delivered yet
IdleHandler == [pc |-> "idle"]
\* a task_id for which asyncio.create_task was not called
NoCoroutine == [pc |-> "none", error |-> NoError]

\* the service was constructed and ingest_document was not called
IngestionIdle ==
    /\ tasks = <<>>
    /\ kv = <<>>
    /\ events = [t \in TaskIds |-> <<>>]
    /\ main = [t \in TaskIds |-> NoCoroutine]
    /\ sent = [t \in TaskIds |-> 0]
    /\ handlers = [h \in HandlerIds |-> IdleHandler]
    /\ ncalls = 0
    /\ lastIngest = [outcome |-> "none"]

Init ==
    /\ IngestionIdle
    /\ documents_rag \in SUBSET PriorRows
    /\ points = {}
    /\ OthersIdle

(* ------------------------- progress and mirror ------------------------ *)

\* an await of a call to a collaborator (parser, broker, vector store,
\* relational store) returns (TRUE) or raises (FALSE); at the other places a
\* coroutine stands there is nothing to draw
AwaitOutcomes(pc, collaborator_calls) ==
    IF pc \in collaborator_calls THEN BOOLEAN ELSE {TRUE}

\* the assignments of _update_progress to the task dict
SetProgress(task, status, percentage, error) ==
    [task EXCEPT !.status = status,
                 !.percentage = percentage,
                 !.error = IF error # NoError THEN error ELSE @]

\* _save_task_state: setex of the dumped task.  A setex that raises is logged
\* and nothing the flows read depends on it: the write is taken to land.
SaveTaskState(store, task) ==
    (task.task_id :> task) @@ store

\* the frame of websocket_manager.send_progress_update
ProgressEvent(task, status, percentage, error) ==
    [status |-> status, percentage |-> percentage,
     total_chunks |-> task.total_chunks,
     processed_chunks |-> task.processed_chunks,
     error |-> error]

(* ------------------------------ admission ----------------------------- *)

\* what _select_existing can return: the query fails, or yields at most one
\* (limit 1, no order) of the rows of the tenant's collection
SelectExisting(rows, tenant_id, collection_id) ==
    LET matching == {r \in rows : /\ r.tenant_id = tenant_id
                                  /\ r.collection_id = collection_id}
    IN  {[kind |-> "error"]}
          \cup (IF matching = {} THEN {[kind |-> "empty"]}
                ELSE {[kind |-> "row", row |-> r] : r \in matching})

\* the comparison without its second operand
ModelDiffersByNameOnly(row, rag_config) ==
    row.embedding_model # rag_config.embedding_model

\* the comparison of lines 383-384
ModelDiffers(row, rag_config) ==
    \/ row.embedding_model # rag_config.embedding_model
    \/ row.embedding_dimensions # rag_config.embedding_dimensions

\* a check that also rejects when the query failed
ValidateCollectionConsistencyFailClosed(existing, rag_config) ==
    \/ existing.kind = "error"
    \/ existing.kind = "row" /\ ModelDiffers(existing.row, rag_config)

\* _validate_collection_consistency: TRUE when it raises the mismatch
\* ValueError; any other exception is logged and swallowed
ValidateCollectionConsistency(existing, rag_config) ==
    /\ existing.kind = "row"
    /\ ModelDiffers(existing.row, rag_config)

\* the user of a request: the routes take the tenant of a token without
\* tenant_id to be the user (ingestion_routes.py 48-51)
UserOf(tenant_id) == "user_of_" \o tenant_id

\* the task dict built by ingest_document.  The dict has no "percentage" and
\* no "chunks" key until they are first written: get_task_status reads an
\* absent percentage as 0 and the callback handler reads absent chunks as [].
NewTask(task_id, tenant_id, collection_id, rag_config) ==
    [task_id |-> task_id,
     document_id |-> task_id,
     tenant_id |-> tenant_id,
     user_id |-> UserOf(tenant_id),
     collection_id |-> collection_id,
     status |-> PROCESSING,
     percentage |-> 0,
     error |-> NoError,
     rag_config |-> rag_config,
     total_chunks |-> 0,
     processed_chunks |-> 0,
     chunks |-> <<>>]

\* "col_<8 hex>": a collection_id no other request names
GeneratedCollection(n) == "col_" \o ToString(n)

\* ingest_document: the consistency query, the task dict, the write to
\* self._tasks and to the shared KV, and asyncio.create_task
IngestDocument(tenant_id, request_collection, rag_config) ==
    /\ ncalls < MaxRequests
    /\ LET task_id == ncalls + 1
           collection_id == IF request_collection = NoCollection
                            THEN GeneratedCollection(task_id)
                            ELSE request_collection
       IN  \E existing \in SelectExisting(documents_rag, tenant_id, collection_id) :
             LET task == NewTask(task_id, tenant_id, collection_id, rag_config)
                 call == [tenant_id |-> tenant_id,
                          collection_id |-> collection_id,
                          rag_config |-> rag_config,
                          existing |-> existing]
             IN  /\ ncalls' = ncalls + 1
                 /\ IF ValidateCollectionConsistency(existing, rag_config)
                    THEN /\ lastIngest' = [outcome |-> "CollectionModelMismatch",
                                           call |-> call]
                         /\ UNCHANGED <<tasks, kv, main>>
                    ELSE /\ lastIngest' = [outcome |-> "admitted", call |-> call]
                         /\ tasks' = (task_id :> task) @@ tasks
                         /\ kv' = SaveTaskState(kv, task)
                         /\ main' = [main EXCEPT ![task_id] =
                                        [pc |-> "start", error |-> NoError]]
    /\ UNCHANGED <<events, documents_rag, points, sent, handlers>>
    /\ UNCHANGED otherVars

(* ----------------------- _process_document_async ---------------------- *)

\* the parameters of DocumentHandler.process_document after self, none with
\* a default
ProcessDocumentParams ==
    <<"request", "document_id", "tenant_id", "collection_id", "agent_ids">>
\* the positional arguments of the call in _process_document_async
ProcessDocumentArgs == <<"request", "document_id">>
\* the parameters of EmbeddingHandler.generate_embeddings after self
GenerateEmbeddingsParams ==
    {"chunks", "tenant_id", "agent_id", "task_id", "rag_config"}
\* the keywords of the call in _process_document_async
GenerateEmbeddingsKeywords ==
    {"chunks", "tenant_id", "agent_ids", "task_id", "rag_config"}

\* Python binds a call when every required parameter gets an argument and no
\* argument is left over; otherwise the call raises TypeError
PositionalCallBinds(args, params) == Len(args) = Len(params)
KeywordCallBinds(keywords, params) == keywords = params

\* the chunks of a document whose parser produced n nodes
ParsedChunks(document_id, n) ==
    [i \in 1..n |-> [chunk_id |-> <<document_id, i>>, embedding |-> FALSE]]

\* the except branch of _process_document_async
MainFailed(task, error) == SetProgress(task, FAILED, 0, error)

Emit(task_id, event) ==
    events' = [events EXCEPT ![task_id] = Append(@, event)]

Update(task_id, task) ==
    /\ tasks' = [tasks EXCEPT ![task_id] = task]
    /\ kv' = SaveTaskState(kv, task)

MainGoto(task_id, pc, error) ==
    main' = [main EXCEPT ![task_id] = [pc |-> pc, error |-> error]]

\* one run of the coroutine of task_id up to its next await
ProcessDocumentAsync(task_id) ==
    /\ task_id \in DOMAIN tasks
    /\ main[task_id].pc \notin {"none", "done"}
    /\ \E ok \in AwaitOutcomes(main[task_id].pc, {"parse", "send"}),
          n \in (IF main[task_id].pc = "parse" THEN 0..MaxChunks ELSE {0}) :
         LET task == tasks[task_id]
             pc == main[task_id].pc
         IN  CASE pc = "start" ->
                    /\ Update(task_id, SetProgress(task, PROCESSING, 10, NoError))
                    /\ MainGoto(task_id, "emit_processing", NoError)
                    /\ UNCHANGED <<events, sent>>
               [] pc = "emit_processing" ->
                    /\ Emit(task_id, ProgressEvent(task, PROCESSING, 10, NoError))
                    /\ IF PositionalCallBinds(ProcessDocumentArgs, ProcessDocumentParams)
                       THEN /\ MainGoto(task_id, "parse", NoError)
                            /\ UNCHANGED <<tasks, kv>>
                       ELSE /\ Update(task_id, MainFailed(task, TypeErrorProcessDocument))
                            /\ MainGoto(task_id, "emit_failed", TypeErrorProcessDocument)
                    /\ UNCHANGED sent
               [] pc = "parse" ->
                    /\ IF ok
                       THEN /\ Update(task_id,
                                      SetProgress([task EXCEPT
                                                     !.total_chunks = n,
                                                     !.chunks = ParsedChunks(task.document_id, n)],
                                                  CHUNKING, 30, NoError))
                            /\ MainGoto(task_id, "emit_chunking", NoError)
                       ELSE /\ Update(task_id, MainFailed(task, ParseError))
                            /\ MainGoto(task_id, "emit_failed", ParseError)
                    /\ UNCHANGED <<events, sent>>
               [] pc = "emit_chunking" ->
                    /\ Emit(task_id, ProgressEvent(task, CHUNKING, 30, NoError))
                    /\ Update(task_id, SetProgress(task, EMBEDDING, 50, NoError))
                    /\ MainGoto(task_id, "emit_embedding", NoError)
                    /\ UNCHANGED sent
               [] pc = "emit_embedding" ->
                    /\ Emit(task_id, ProgressEvent(task, EMBEDDING, 50, NoError))
                    /\ IF ~KeywordCallBinds(GenerateEmbeddingsKeywords, GenerateEmbeddingsParams)
                       THEN /\ Update(task_id, MainFailed(task, TypeErrorGenerateEmbeddings))
                            /\ MainGoto(task_id, "emit_failed", TypeErrorGenerateEmbeddings)
                       ELSE /\ MainGoto(task_id,
                                        IF task.chunks = <<>> THEN "done" ELSE "send",
                                        NoError)
                            /\ UNCHANGED <<tasks, kv>>
                    /\ UNCHANGED sent
               [] pc = "send" ->
                    /\ IF ok
                       THEN /\ sent' = [sent EXCEPT ![task_id] = @ + 1]
                            /\ MainGoto(task_id, "done", NoError)
                            /\ UNCHANGED <<tasks, kv>>
                       ELSE /\ Update(task_id, MainFailed(task, SendError))
                            /\ MainGoto(task_id, "emit_failed", SendError)
                            /\ UNCHANGED sent
                    /\ UNCHANGED events
               [] pc = "emit_failed" ->
                    /\ Emit(task_id, ProgressEvent(task, FAILED, 0, main[task_id].error))
                    /\ MainGoto(task_id, "done", main[task_id].error)
                    /\ UNCHANGED <<tasks, kv, sent>>
    /\ UNCHANGED <<documents_rag, points, handlers, ncalls, lastIngest>>
    /\ UNCHANGED otherVars

(* ------------------------ QdrantHandler.store_chunks ------------------ *)

\* the chunks store_chunks skips: `if not chunk.embedding`
WithoutEmbedding(chunks) ==
    SelectSeq(chunks, LAMBDA c : ~c.embedding)

\* the PointStruct list store_chunks builds, one point per chunk that has an
\* embedding, id = chunk_id, the hierarchy and the embedding metadata in the
\* payload
BuildPoints(chunks, document_id, tenant_id, collection_id, embedding_metadata) ==
    LET withEmbedding == SelectSeq(chunks, LAMBDA c : c.embedding)
    IN  [i \in 1..Len(withEmbedding) |->
            [chunk_id |-> withEmbedding[i].chunk_id,
             tenant_id |-> tenant_id,
             collection_id |-> collection_id,
             document_id |-> document_id,
             embedding_model |-> embedding_metadata.embedding_model,
             embedding_dimensions |-> embedding_metadata.embedding_dimensions]]

\* client.upsert when a point of an id already stored is kept next to the
\* stored one
UpsertKeepsBoth(stored, new_points) ==
    stored \cup {new_points[i] : i \in 1..Len(new_points)}

\* client.upsert: a point replaces the stored point of the same id
Upsert(stored, new_points) ==
    LET ids == {new_points[i].chunk_id : i \in 1..Len(new_points)}
    IN  {p \in stored : p.chunk_id \notin ids}
          \cup {new_points[i] : i \in 1..Len(new_points)}

\* the dict store_chunks returns: failed_chunks holds the chunks without
\* embedding and, when the upsert raised, every point id as well
StoreChunksResult(chunks, new_points, upsert_raised) ==
    IF chunks = <<>>
    THEN [stored |-> 0, failed |-> 0]
    ELSE LET failed_chunks ==
                 Len(WithoutEmbedding(chunks))
                   + (IF upsert_raised THEN Len(new_points) ELSE 0)
         IN  [stored |-> Len(new_points) - failed_chunks,
              failed |-> failed_chunks]

(* ----------------------- handle_embedding_callback -------------------- *)

\* the payloads a callback may carry: with or without "embeddings", the
\* number of embeddings, and the model the embedder reports
CallbackData ==
    [has_embeddings : BOOLEAN,
     embeddings : 0..MaxChunks,
     embedding_metadata : ReportedConfigs]

\* lines 472-474: chunk i takes embeddings[i] while i < len(embeddings)
AttachEmbeddings(chunks, n) ==
    [i \in 1..Len(chunks) |->
        IF i <= n THEN [chunks[i] EXCEPT !.embedding = TRUE] ELSE chunks[i]]

\* the except branch of handle_embedding_callback
CallbackFailed(task, error) == SetProgress(task, FAILED, 80, error)

\* document_data of _persist_document_metadata; inserted_by tells apart two
\* rows that two callbacks insert for one document
DocumentData(task, embedding_metadata, inserted_by) ==
    [inserted_by |-> inserted_by,
     tenant_id |-> task.tenant_id,
     collection_id |-> task.collection_id,
     document_id |-> task.document_id,
     embedding_model |-> embedding_metadata.embedding_model,
     embedding_dimensions |-> embedding_metadata.embedding_dimensions,
     total_chunks |-> task.total_chunks,
     processed_chunks |-> task.processed_chunks]

\* a handler that returned
Returned == [pc |-> "done"]

\* lines 462-465: the task_id is not in self._tasks, the handler returns
\* {"error": "Task not found"}
TaskNotFound(task_id) == [pc |-> "done", task_id |-> task_id, error |-> "Task not found"]

\* the locals of handler h that its remaining lines read
HandlerGoto(h, locals) ==
    handlers' = [handlers EXCEPT ![h] = locals]

\* lines 499-581 up to the await of the insert: processed_chunks is set and
\* document_data is built from the task
ToInsert(h, task, result) ==
    LET counted == [task EXCEPT !.processed_chunks = result.stored]
    IN  /\ tasks' = [tasks EXCEPT ![task.task_id] = counted]
        /\ HandlerGoto(h, [pc |-> "insert",
                           task_id |-> task.task_id,
                           document_data |->
                              DocumentData(counted, handlers[h].embedding_metadata, h)])

\* the worker hands an ingestion.embedding_callback action to the handler:
\* lines 459-481, up to the first await
DeliverCallback(h, task_id, data) ==
    /\ handlers[h].pc = "idle"
    /\ \A g \in HandlerIds : g < h => handlers[g].pc # "idle"
    /\ IF task_id \notin DOMAIN tasks
       THEN /\ HandlerGoto(h, TaskNotFound(task_id))
            /\ UNCHANGED <<tasks, kv>>
       ELSE   LET task == tasks[task_id]
              IN  IF ~data.has_embeddings
                  THEN /\ Update(task_id, CallbackFailed(task, KeyErrorEmbeddings))
                       /\ HandlerGoto(h, [pc |-> "emit_failed", task_id |-> task_id,
                                          error |-> KeyErrorEmbeddings])
                  ELSE /\ Update(task_id,
                                 SetProgress([task EXCEPT !.chunks =
                                                 AttachEmbeddings(@, data.embeddings)],
                                             STORING, 80, NoError))
                       /\ HandlerGoto(h, [pc |-> "emit_storing", task_id |-> task_id,
                                          embedding_metadata |-> data.embedding_metadata])
    /\ UNCHANGED <<events, documents_rag, points, main, sent, ncalls, lastIngest>>
    /\ UNCHANGED otherVars

\* one run of handler h up to its next await
HandleEmbeddingCallback(h) ==
    /\ handlers[h].pc \notin {"idle", "done"}
    /\ \E ok \in AwaitOutcomes(handlers[h].pc, {"upsert", "insert"}) :
         LET pc == handlers[h].pc
             task == tasks[handlers[h].task_id]
             task_id == handlers[h].task_id
         IN  CASE pc = "emit_storing" ->
                    LET new_points == BuildPoints(task.chunks, task.document_id,
                                                  task.tenant_id, task.collection_id,
                                                  handlers[h].embedding_metadata)
                    IN  /\ Emit(task_id, ProgressEvent(task, STORING, 80, NoError))
                        /\ IF new_points = <<>>
                           THEN ToInsert(h, task,
                                         StoreChunksResult(task.chunks, new_points, FALSE))
                           ELSE /\ HandlerGoto(h, [pc |-> "upsert",
                                                   task_id |-> task_id,
                                                   embedding_metadata |->
                                                      handlers[h].embedding_metadata,
                                                   new_points |-> new_points,
                                                   chunks |-> task.chunks])
                                /\ UNCHANGED tasks
                        /\ UNCHANGED <<kv, documents_rag, points>>
               [] pc = "upsert" ->
                    /\ points' = IF ok THEN Upsert(points, handlers[h].new_points)
                                 ELSE points
                    /\ ToInsert(h, task,
                                StoreChunksResult(handlers[h].chunks,
                                                  handlers[h].new_points, ~ok))
                    /\ UNCHANGED <<kv, events, documents_rag>>
               [] pc = "insert" ->
                    /\ documents_rag' = IF ok
                                        THEN documents_rag \cup {handlers[h].document_data}
                                        ELSE documents_rag
                    /\ Update(task_id, SetProgress(task, COMPLETED, 100, NoError))
                    /\ HandlerGoto(h, [pc |-> "emit_completed", task_id |-> task_id,
                                       inserted |-> ok])
                    /\ UNCHANGED <<events, points>>
               [] pc = "emit_completed" ->
                    /\ Emit(task_id, ProgressEvent(task, COMPLETED, 100, NoError))
                    /\ HandlerGoto(h, Returned)
                    /\ UNCHANGED <<tasks, kv, documents_rag, points>>
               [] pc = "emit_failed" ->
                    /\ Emit(task_id, ProgressEvent(task, FAILED, 80, handlers[h].error))
                    /\ HandlerGoto(h, Returned)
                    /\ UNCHANGED <<tasks, kv, documents_rag, points>>
    /\ UNCHANGED <<main, sent, ncalls, lastIngest>>
    /\ UNCHANGED otherVars

Next ==
    \/ \E tenant_id \in Tenants, c \in RequestCollections, r \in RagConfigs :
          IngestDocument(tenant_id, c, r)
    \/ \E t \in TaskIds : ProcessDocumentAsync(t)
    \/ \E h \in HandlerIds, t \in TaskIds, d \in CallbackData :
          DeliverCallback(h, t, d)
    \/ \E h \in HandlerIds : HandleEmbeddingCallback(h)

Spec == Init /\ [][Next]_vars

(* ------------------------------ vector search ------------------------ *)

\* a missing argument: None or the empty string
Missing == ""

SearchTenants == {"tenant_x", "tenant_y"}
Agents == {"agent_a", "agent_b"}
Collections == {"col_Y", "col_Z"}
DocumentIds == 1..MaxDocuments
\* the agent_ids lists a payload may carry
AgentLists ==
    {<<>>} \cup {<<a>> : a \in Agents}
           \cup {l \in {<<a, b>> : a \in Agents, b \in Agents} : l[1] # l[2]}

\* the points store_chunks writes for one document: every chunk carries the
\* tenant, the collection and the agent_ids of the document's task
StoredDocument(document_id, tenant_id, collection_id, agent_ids, n) ==
    { [chunk_id |-> <<document_id, i>>,
       tenant_id |-> tenant_id,
       collection_id |-> collection_id,
       document_id |-> document_id,
       agent_ids |-> agent_ids] : i \in 1..n }

\* what one document may have in the physical collection: nothing, or its
\* chunks under one tenant and one collection
StoredDocuments(document_id, agent_lists, chunk_counts) ==
    {{}} \cup { StoredDocument(document_id, t, c, l, n) :
                  t \in SearchTenants, c \in Collections,
                  l \in agent_lists, n \in chunk_counts }

RECURSIVE StoresUpTo(_, _, _)
StoresUpTo(document_id, agent_lists, chunk_counts) ==
    IF document_id = 0 THEN {{}}
    ELSE { s \cup d : s \in StoresUpTo(document_id - 1, agent_lists, chunk_counts),
                      d \in StoredDocuments(document_id, agent_lists, chunk_counts) }

\* what the physical collection may hold
VectorStores == StoresUpTo(MaxDocuments, AgentLists, 1..MaxChunks)

\* FieldCondition(key, MatchValue(value)) and FieldCondition(key, MatchAny(any))
MatchValue(key, value) == [key |-> key, any |-> {value}]
MatchAny(key, any) == [key |-> key, any |-> any]

\* a point satisfies a condition when its payload value is one of `any`; an
\* array payload (agent_ids) satisfies it when one of its elements is
Satisfies(point, condition) ==
    IF condition.key = "agent_ids"
    THEN \E i \in DOMAIN point.agent_ids : point.agent_ids[i] \in condition.any
    ELSE point[condition.key] \in condition.any

\* the points a Filter(must = conditions) selects
Matching(stored, must_conditions) ==
    {p \in stored : \A c \in must_conditions : Satisfies(p, c)}

\* client.search: at most `limit` of the selected points (the score order and
\* the score threshold decide which)
Hits(stored, must_conditions, limit) ==
    {h \in SUBSET Matching(stored, must_conditions) : Cardinality(h) <= limit}

\* the must list of QdrantClient.search: tenant_id and agent_ids always, the
\* collection_id condition is commented out, document_id when the filters
\* name document_ids
SearchFilter(tenant_id, agent_id, collection_ids, document_ids) ==
    {MatchValue("tenant_id", tenant_id), MatchAny("agent_ids", {agent_id})}
      \cup (IF document_ids # {}
            THEN {MatchAny("document_id", document_ids)} ELSE {})

\* the must list of QdrantHandler.search_by_agent
SearchByAgentFilter(tenant_id, agent_id, collection_ids) ==
    {MatchValue("tenant_id", tenant_id), MatchAny("agent_ids", {agent_id})}
      \cup (IF collection_ids # {}
            THEN {MatchAny("collection_id", collection_ids)} ELSE {})

SearchArgs(by, tenant_id, agent_id, collection_ids, document_ids) ==
    [by |-> by, tenant_id |-> tenant_id, agent_id |-> agent_id,
     collection_ids |-> collection_ids, document_ids |-> document_ids]

\* QdrantClient.search of the query service
Search(tenant_id, agent_id, collection_ids, document_ids, top_k) ==
    /\ lastSearch.outcome = "none"
    /\ LET call == SearchArgs("QdrantClient.search", tenant_id, agent_id,
                              collection_ids, document_ids)
       IN  IF agent_id = Missing
           THEN lastSearch' = [outcome |-> "ValueError", call |-> call, hits |-> {}]
           ELSE \E hits \in Hits(points,
                                 SearchFilter(tenant_id, agent_id, collection_ids,
                                              document_ids),
                                 top_k) :
                   lastSearch' = [outcome |-> "returned", call |-> call, hits |-> hits]
    /\ UNCHANGED <<points, documents_rag>>
    /\ UNCHANGED <<deleteOp, updateOp, agentLaw, storeOp>>
    /\ UNCHANGED configVars
    /\ UNCHANGED ingestionVars
    /\ UNCHANGED serviceVars

\* QdrantHandler.search_by_agent.  It hands the str agent_id to MatchAny, whose
\* `any` is declared a list: the client library rejects the value
\* (accepted = FALSE) or takes it as the one agent to match.
SearchByAgent(tenant_id, agent_id, collection_ids, limit, accepted) ==
    /\ lastSearch.outcome = "none"
    /\ LET call == SearchArgs("QdrantHandler.search_by_agent", tenant_id, agent_id,
                              collection_ids, {})
       IN  IF ~accepted
           THEN lastSearch' = [outcome |-> "ValidationError", call |-> call,
                               hits |-> {}]
           ELSE \E hits \in Hits(points,
                                 SearchByAgentFilter(tenant_id, agent_id, collection_ids),
                                 limit) :
                   lastSearch' = [outcome |-> "returned", call |-> call, hits |-> hits]
    /\ UNCHANGED <<points, documents_rag>>
    /\ UNCHANGED <<deleteOp, updateOp, agentLaw, storeOp>>
    /\ UNCHANGED configVars
    /\ UNCHANGED ingestionVars
    /\ UNCHANGED serviceVars

SearchInit ==
    /\ IngestionIdle
    /\ OthersIdle
    /\ documents_rag = {}
    /\ points \in VectorStores

SearchNext ==
    \/ \E t \in SearchTenants \cup {Missing}, a \in Agents \cup {Missing},
          c \in SUBSET Collections, d \in SUBSET DocumentIds, k \in 1..MaxTopK :
          Search(t, a, c, d, k)
    \/ \E t \in SearchTenants \cup {Missing}, a \in Agents \cup {Missing},
          c \in SUBSET Collections, k \in 1..MaxTopK, accepted \in BOOLEAN :
          SearchByAgent(t, a, c, k, accepted)

SearchSpec == SearchInit /\ [][SearchNext]_vars

(* ---------------------------- delete_document ------------------------- *)

\* the documents_rag row of one document, with the columns the delete and the
\* agents update read
\* str(uuid.uuid4()): an agent_id that names no agent
ThrowawayAgent == "uuid4"

\* the legacy agent_id column as _persist_document_metadata fills it: the
\* first of the task's agent_ids, or a throwaway UUID when there is none
FirstAgentOrThrowaway(agent_ids) ==
    IF agent_ids # <<>> THEN agent_ids[1] ELSE ThrowawayAgent

MetadataRow(document_id, tenant_id, collection_id, agent_ids) ==
    [tenant_id |-> tenant_id,
     collection_id |-> collection_id,
     document_id |-> document_id,
     agent_id |-> FirstAgentOrThrowaway(agent_ids),
     metadata_agent_ids |-> agent_ids]

\* what documents_rag may hold for one document: no row (the insert failed),
\* or one row under the tenant and the collection of the document's points
\* (any tenant and collection when the document has no point)
DocumentRows(document_id, stored, agent_lists) ==
    LET own == {p \in stored : p.document_id = document_id}
        places == {x \in [tenant_id : SearchTenants, collection_id : Collections] :
                     \/ own = {}
                     \/ \E p \in own : /\ p.tenant_id = x.tenant_id
                                        /\ p.collection_id = x.collection_id}
    IN  {{}} \cup { {MetadataRow(document_id, x.tenant_id, x.collection_id, l)} :
                      x \in places, l \in agent_lists }

RECURSIVE RowsUpTo(_, _, _)
RowsUpTo(document_id, stored, agent_lists) ==
    IF document_id = 0 THEN {{}}
    ELSE { s \cup d : s \in RowsUpTo(document_id - 1, stored, agent_lists),
                      d \in DocumentRows(document_id, stored, agent_lists) }

\* the agent list of the documents a delete runs on
DeleteAgentLists == {<<"agent_a">>}

\* the points_selector of QdrantHandler.delete_document
DeleteFilterAnyCollection(tenant_id, document_id, collection_id) ==
    {MatchValue("tenant_id", tenant_id), MatchValue("document_id", document_id)}

DeleteFilter(tenant_id, document_id, collection_id) ==
    {MatchValue("tenant_id", tenant_id),
     MatchValue("collection_id", collection_id),
     MatchValue("document_id", document_id)}

\* the rows .match({tenant_id, document_id, collection_id}) selects
RowMatch(rows, tenant_id, document_id, collection_id) ==
    {r \in rows : /\ r.tenant_id = tenant_id
                  /\ r.document_id = document_id
                  /\ r.collection_id = collection_id}

\* the vector delete raised and the service went on to the row all the same
AfterVectorDeleteSwallowed(ok) == "delete_row"

\* QdrantHandler.delete_document re-raises and so does the service: after a
\* vector delete that raised, the call is over
AfterVectorDelete(ok) == IF ok THEN "delete_row" ELSE "raised"

\* delete_document up to the return of the vector delete.  A delete that
\* raised may have been applied by the vector store all the same.
DeleteVectors(tenant_id, document_id, collection_id, ok) ==
    /\ deleteOp.pc = "idle"
    /\ \E applied \in (IF ok THEN {TRUE} ELSE BOOLEAN) :
          points' = IF applied
                    THEN points \ Matching(points, DeleteFilter(tenant_id, document_id,
                                                                collection_id))
                    ELSE points
    /\ deleteOp' = [pc |-> AfterVectorDelete(ok),
                    call |-> [tenant_id |-> tenant_id, document_id |-> document_id,
                              collection_id |-> collection_id],
                    points_before |-> points,
                    rows_before |-> documents_rag,
                    vectors_raised |-> ~ok]
    /\ UNCHANGED documents_rag
    /\ UNCHANGED <<lastSearch, updateOp, agentLaw, storeOp>>
    /\ UNCHANGED configVars
    /\ UNCHANGED ingestionVars
    /\ UNCHANGED serviceVars

\* delete_document from the row delete to its return
DeleteRow(ok) ==
    /\ deleteOp.pc = "delete_row"
    /\ \E applied \in (IF ok THEN {TRUE} ELSE BOOLEAN) :
          documents_rag' =
             IF applied
             THEN documents_rag \ RowMatch(documents_rag, deleteOp.call.tenant_id,
                                           deleteOp.call.document_id,
                                           deleteOp.call.collection_id)
             ELSE documents_rag
    /\ deleteOp' = [deleteOp EXCEPT !.pc = IF ok THEN "deleted" ELSE "raised"]
    /\ UNCHANGED points
    /\ UNCHANGED <<lastSearch, updateOp, agentLaw, storeOp>>
    /\ UNCHANGED configVars
    /\ UNCHANGED ingestionVars
    /\ UNCHANGED serviceVars

DeleteInit ==
    /\ IngestionIdle
    /\ OthersIdle
    /\ points \in StoresUpTo(MaxDocuments, DeleteAgentLists, {MaxChunks})
    /\ documents_rag \in RowsUpTo(MaxDocuments, points, DeleteAgentLists)

DeleteNext ==
    \/ \E t \in SearchTenants, d \in DocumentIds, c \in Collections, ok \in BOOLEAN :
          DeleteVectors(t, d, c, ok)
    \/ \E ok \in BOOLEAN : DeleteRow(ok)

DeleteSpec == DeleteInit /\ [][DeleteNext]_vars

(* -------------------------- agent list updates ----------------------- *)

Elements(l) == {l[i] : i \in DOMAIN l}

\* list(set(...)): the elements once each, in an order the runtime picks
Orderings(S) == {l \in [1..Cardinality(S) -> S] : Elements(l) = S}

\* the agent_ids a request may carry: any list, repeats included
RequestAgentLists == UNION {[1..n -> Agents] : n \in 0..MaxAgentArgs}

\* a remove that takes nothing out
RemoveAgentsKeepsAll(current_agents, agent_ids) == current_agents

\* [a for a in current_agents if a not in agent_ids]
RemoveAgents(current_agents, agent_ids) ==
    SelectSeq(current_agents, LAMBDA a : a \notin Elements(agent_ids))

\* the lists update_chunk_agents may write to a chunk; none when the
\* operation is not one of the three (ValueError)
ChunkNewAgents(current_agents, agent_ids, operation) ==
    CASE operation = "set" -> {agent_ids}
      [] operation = "add" -> Orderings(Elements(current_agents \o agent_ids))
      [] operation = "remove" -> {RemoveAgents(current_agents, agent_ids)}
      [] OTHER -> {}

\* the lists update_document_agents may write to metadata.agent_ids; another
\* operation leaves the list as it is
MetadataNewAgents(current_agents, agent_ids, operation) ==
    CASE operation = "set" -> {agent_ids}
      [] operation = "add" -> Orderings(Elements(current_agents \o agent_ids))
      [] operation = "remove" -> {RemoveAgents(current_agents, agent_ids)}
      [] OTHER -> {current_agents}

\* one update applied to the agent list of a chunk and to the agent list of
\* the metadata, both starting from the same list
ApplyUpdate(operation, agent_ids) ==
    /\ Len(agentLaw.applied) < MaxUpdates
    /\ \E c \in ChunkNewAgents(agentLaw.chunk_agents, agent_ids, operation),
          m \in MetadataNewAgents(agentLaw.metadata_agents, agent_ids, operation) :
          agentLaw' = [agentLaw EXCEPT
                         !.chunk_agents = c,
                         !.metadata_agents = m,
                         !.applied = Append(@, [operation |-> operation,
                                                agent_ids |-> agent_ids])]
    /\ UNCHANGED <<points, documents_rag>>
    /\ UNCHANGED <<lastSearch, deleteOp, updateOp, storeOp>>
    /\ UNCHANGED configVars
    /\ UNCHANGED ingestionVars
    /\ UNCHANGED serviceVars

LawInit ==
    /\ IngestionIdle
    /\ SearchIdle /\ DeleteIdle /\ UpdateIdle /\ StoreIdle /\ ConfigIdle
    /\ ServicesIdle
    /\ points = {}
    /\ documents_rag = {}
    /\ agentLaw \in {[start |-> l, chunk_agents |-> l, metadata_agents |-> l,
                       applied |-> <<>>] : l \in RequestAgentLists}

LawNext ==
    \E operation \in {"set", "add", "remove"}, agent_ids \in RequestAgentLists :
       ApplyUpdate(operation, agent_ids)

LawSpec == LawInit /\ [][LawNext]_vars

(* ----------------------- update_document_agents ----------------------- *)

\* limit=1000 of the scroll of update_chunk_agents
ScrollLimit == 1000

\* a run of `chunks` consecutive chunks of one document that carry the same
\* payload, the i-th run of the document
ChunkRun(document_id, i, chunks, tenant_id, collection_id, agent_ids) ==
    [chunk_id |-> <<document_id, i>>,
     chunks |-> chunks,
     tenant_id |-> tenant_id,
     collection_id |-> collection_id,
     document_id |-> document_id,
     agent_ids |-> agent_ids]

\* the sizes of the runs of a document: one chunk, two chunks, or one chunk
\* more than a scroll returns
RunLayouts == {<<1>>, <<1, 1>>, <<ScrollLimit, 1>>}

\* what the collection may hold of document 1 when an update runs: nothing,
\* or its chunks as store_chunks wrote them, all with the same agent_ids
UpdateStores ==
    {{}} \cup { { ChunkRun(1, i, layout[i], t, "col_Y", l) : i \in DOMAIN layout } :
                  layout \in RunLayouts, t \in SearchTenants, l \in AgentLists }

\* what documents_rag may hold of document 1: no row, or one row whose
\* metadata.agent_ids holds the agents of the chunks
UpdateRows(stored) ==
    {{}} \cup
    (IF stored = {}
     THEN { {MetadataRow(1, t, "col_Y", l)} : t \in SearchTenants, l \in AgentLists }
     ELSE LET b == CHOOSE x \in stored : TRUE
          IN  { {MetadataRow(1, b.tenant_id, b.collection_id, l)} :
                   l \in Orderings(Elements(b.agent_ids)) })

RECURSIVE SumChunks(_)
SumChunks(runs) ==
    IF runs = {} THEN 0
    ELSE LET r == CHOOSE x \in runs : TRUE
         IN  r.chunks + SumChunks(runs \ {r})

\* chunks[0] of the scroll: the first ScrollLimit chunks, in id order, of the
\* tenant's document; the next page is never asked for
Scrolled(stored, tenant_id, document_id) ==
    LET matching == {r \in stored : /\ r.tenant_id = tenant_id
                                    /\ r.document_id = document_id}
    IN  {r \in matching :
           SumChunks({x \in matching : x.chunk_id[2] <= r.chunk_id[2]}) <= ScrollLimit}

\* the service went on to the row after a vector update that returned False
AfterChunkUpdateIgnored(success) == "select_row"

\* `if not success: raise ValueError`
AfterChunkUpdate(success) == IF success THEN "select_row" ELSE "raised"

\* update_document_agents up to the return of update_chunk_agents, which
\* catches every exception and returns False.  When a set_payload raises,
\* the runs before it (failed_at) are already rewritten.
UpdateChunks(tenant_id, document_id, agent_ids, operation, outcome) ==
    /\ updateOp.pc \in {"idle", "returned"}
    /\ (IF updateOp.pc = "idle" THEN 0 ELSE updateOp.calls) < MaxUpdates
    /\ LET scrolled == Scrolled(points, tenant_id, document_id)
           valid == operation \in {"set", "add", "remove"}
           success == outcome = "ok" /\ scrolled # {} /\ valid
           touched == outcome # "scroll_raised" /\ scrolled # {} /\ valid
       IN  /\ \E failed_at \in (IF outcome = "set_payload_raised" /\ scrolled # {}
                                THEN {r.chunk_id[2] : r \in scrolled} ELSE {0}) :
                 \E new \in [scrolled -> AgentLists \cup RequestAgentLists] :
                    /\ \A r \in scrolled :
                          IF touched /\ (failed_at = 0 \/ r.chunk_id[2] < failed_at)
                          THEN new[r] \in ChunkNewAgents(r.agent_ids, agent_ids, operation)
                          ELSE new[r] = r.agent_ids
                    /\ points' = (points \ scrolled)
                                    \cup {[r EXCEPT !.agent_ids = new[r]] : r \in scrolled}
           /\ updateOp' = [pc |-> AfterChunkUpdate(success),
                           call |-> [tenant_id |-> tenant_id,
                                     document_id |-> document_id,
                                     agent_ids |-> agent_ids,
                                     operation |-> operation],
                           calls |-> (IF updateOp.pc = "idle" THEN 0 ELSE updateOp.calls) + 1,
                           rows_before |-> documents_rag,
                           vector_update_failed |-> ~success]
    /\ UNCHANGED documents_rag
    /\ UNCHANGED <<lastSearch, deleteOp, agentLaw, storeOp>>
    /\ UNCHANGED configVars
    /\ UNCHANGED ingestionVars
    /\ UNCHANGED serviceVars

\* the rows .match({tenant_id, document_id}) selects
UpdateRowMatch(rows, tenant_id, document_id) ==
    {r \in rows : r.tenant_id = tenant_id /\ r.document_id = document_id}

\* _select_doc and the new metadata: .single() raises unless exactly one row
\* matches
SelectDoc(ok) ==
    /\ updateOp.pc = "select_row"
    /\ LET rows == UpdateRowMatch(documents_rag, updateOp.call.tenant_id,
                                  updateOp.call.document_id)
       IN  IF ok /\ Cardinality(rows) = 1
           THEN \E r \in rows :
                  \E m \in MetadataNewAgents(r.metadata_agent_ids,
                                              updateOp.call.agent_ids,
                                              updateOp.call.operation) :
                     updateOp' = [updateOp EXCEPT !.pc = "update_row"]
                                    @@ [metadata_agent_ids |-> m]
           ELSE updateOp' = [updateOp EXCEPT !.pc = "raised"]
    /\ UNCHANGED <<points, documents_rag>>
    /\ UNCHANGED <<lastSearch, deleteOp, agentLaw, storeOp>>
    /\ UNCHANGED configVars
    /\ UNCHANGED ingestionVars
    /\ UNCHANGED serviceVars

\* "agent_id": agent_ids[0] if agent_ids else str(uuid.uuid4()), over the
\* agent_ids of the request
UpdatedAgentId(agent_ids) ==
    IF agent_ids # <<>> THEN agent_ids[1] ELSE ThrowawayAgent

\* _update_doc and the return.  An update that raised may have been applied.
UpdateDoc(ok) ==
    /\ updateOp.pc = "update_row"
    /\ LET rows == UpdateRowMatch(documents_rag, updateOp.call.tenant_id,
                                  updateOp.call.document_id)
       IN  \E applied \in (IF ok THEN {TRUE} ELSE BOOLEAN) :
              documents_rag' =
                 IF applied
                 THEN (documents_rag \ rows)
                        \cup {[r EXCEPT !.metadata_agent_ids =
                                           updateOp.metadata_agent_ids,
                                         !.agent_id =
                                           UpdatedAgentId(updateOp.call.agent_ids)] :
                                r \in rows}
                 ELSE documents_rag
    /\ updateOp' = [c \in DOMAIN updateOp \ {"metadata_agent_ids"} |->
                      IF c = "pc" THEN (IF ok THEN "returned" ELSE "raised")
                      ELSE updateOp[c]]
    /\ UNCHANGED points
    /\ UNCHANGED <<lastSearch, deleteOp, agentLaw, storeOp>>
    /\ UNCHANGED configVars
    /\ UNCHANGED ingestionVars
    /\ UNCHANGED serviceVars

UpdateInit ==
    /\ IngestionIdle
    /\ OthersIdle
    /\ points \in UpdateStores
    /\ documents_rag \in UpdateRows(points)

UpdateNext ==
    \/ \E agent_ids \in RequestAgentLists,
          operation \in {"set", "add", "remove", "replace"},
          outcome \in {"ok", "scroll_raised", "set_payload_raised"} :
          UpdateChunks("tenant_x", 1, agent_ids, operation, outcome)
    \/ \E ok \in BOOLEAN : SelectDoc(ok)
    \/ \E ok \in BOOLEAN : UpdateDoc(ok)

UpdateSpec == UpdateInit /\ [][UpdateNext]_vars

(* --------------------------- store_chunks calls ----------------------- *)

\* the chunk lists a store_chunks call may be given: the chunks of one
\* document in chunk_index order, each with or without its embedding
ChunkLists(document_id) ==
    UNION { { [i \in 1..n |-> [chunk_id |-> <<document_id, i>>,
                               embedding |-> e[i]]] : e \in [1..n -> BOOLEAN] } :
            n \in 0..MaxChunks }

\* one store_chunks call.  The upsert is made when the point list is not
\* empty; an upsert that raised may have been applied.
StoreChunks(chunks, document_id, tenant_id, collection_id, embedding_metadata, upsert_raised, applied) ==
    /\ storeOp.calls < MaxCallbacks
    /\ LET new_points == BuildPoints(chunks, document_id, tenant_id,
                                     collection_id, embedding_metadata)
           raised == upsert_raised /\ new_points # <<>>
           written == new_points # <<>> /\ (raised => applied)
       IN  /\ points' = IF written THEN Upsert(points, new_points)
                        ELSE points
           /\ storeOp' = [calls |-> storeOp.calls + 1,
                          chunks |-> chunks,
                          new_points |-> new_points,
                          upsert_raised |-> raised,
                          written |-> IF written THEN Len(new_points) ELSE 0,
                          points_before |-> points,
                          result |-> StoreChunksResult(chunks, new_points, raised)]
    /\ UNCHANGED documents_rag
    /\ UNCHANGED <<lastSearch, deleteOp, updateOp, agentLaw>>
    /\ UNCHANGED configVars
    /\ UNCHANGED ingestionVars
    /\ UNCHANGED serviceVars

StoreInit ==
    /\ IngestionIdle
    /\ OthersIdle
    /\ points = {}
    /\ documents_rag = {}

StoreNext ==
    \E chunks \in ChunkLists(1), embedding_metadata \in ReportedConfigs,
       upsert_raised \in BOOLEAN, applied \in BOOLEAN :
       StoreChunks(chunks, 1, "tenant_x", "col_Y", embedding_metadata,
                   upsert_raised, applied)

StoreSpec == StoreInit /\ [][StoreNext]_vars

(* ----------------------------- ConfigHandler --------------------------- *)

\* One tenant; a cache_key per agent.  A row of the agents table is
\* [row |-> v, parsable |-> b]: v tells apart what successive writes left,
\* parsable tells whether _parse_configs accepts it.  The agents table and the
\* shared cache hold <<>> (nothing) or <<row>> per agent; _local_cache holds
\* <<>> or the tuple <<row, old>>, old telling that the entry's timestamp is
\* more than config_cache_ttl ago.  A coroutine runs without interruption
\* between two awaits; each awaited request takes effect at its server in a
\* step of its own.

LookupIds == 1..MaxLookups

AgentRows == [row : 1..MaxVersions, parsable : BOOLEAN]
\* the agent whose row the writer updates
WrittenAgent == "agent_a"

\* _get_default_configs
DefaultConfigs == [row |-> 0, parsable |-> TRUE]

\* _parse_configs accepts every row
ParseConfigsUnchecked(agent_data) == agent_data

\* _parse_configs under the try of get_agent_configs: a row that the three
\* model_validate calls reject raises, and line 100 returns the defaults
ParseConfigs(agent_data) ==
    IF agent_data.parsable THEN agent_data ELSE DefaultConfigs

\* a finished call: what it returned
LookupReturned(lookup, configs) ==
    [lookup EXCEPT !.pc = "done", !.data = <<>>, !.returned = <<configs>>]

\* lines 64-77: a hit in _local_cache is returned, whatever its timestamp; a
\* miss sends the get to the shared cache
StartLookup(i, agent_id) ==
    /\ lookups[i].pc = "idle"
    /\ lookups' = [lookups EXCEPT ![i] =
                      IF local_cache[agent_id] # <<>>
                      THEN LookupReturned([@ EXCEPT !.agent_id = agent_id,
                                                    !.trace = <<"L1">>],
                                          ParseConfigs(local_cache[agent_id][1]))
                      ELSE [@ EXCEPT !.pc = "redis_get",
                                     !.agent_id = agent_id,
                                     !.trace = <<"L1">>]]
    /\ UNCHANGED <<local_cache, redis_cache, agents, invalidation>>
    /\ UNCHANGED <<documents_rag, points>>
    /\ UNCHANGED <<lastSearch, deleteOp, updateOp, agentLaw, storeOp>>
    /\ UNCHANGED ingestionVars
    /\ UNCHANGED serviceVars

\* cache_manager.get reads the entry at the shared cache; a get that raised
\* ends the call at line 100
RedisGet(i, ok) ==
    /\ lookups[i].pc = "redis_get"
    /\ lookups' = [lookups EXCEPT ![i] =
                      IF ok
                      THEN [@ EXCEPT !.pc = "redis_got",
                                     !.data = redis_cache[lookups[i].agent_id],
                                     !.trace = Append(@, "L2")]
                      ELSE LookupReturned([@ EXCEPT !.trace = Append(@, "L2")],
                                    DefaultConfigs)]
    /\ UNCHANGED <<local_cache, redis_cache, agents, invalidation>>
    /\ UNCHANGED <<documents_rag, points>>
    /\ UNCHANGED <<lastSearch, deleteOp, updateOp, agentLaw, storeOp>>
    /\ UNCHANGED ingestionVars
    /\ UNCHANGED serviceVars

\* line 80 without the assignment to _local_cache
LocalAfterRedisHitSkipped(cache, agent_id, cached_data) == cache

\* line 80: the entry read from the shared cache fills _local_cache
LocalAfterRedisHit(cache, agent_id, cached_data) ==
    [cache EXCEPT ![agent_id] = <<cached_data, FALSE>>]

\* lines 79-87: an entry read is cached locally and returned; without one the
\* row is requested from the agents table
AfterRedisGet(i) ==
    /\ lookups[i].pc = "redis_got"
    /\ IF lookups[i].data # <<>>
       THEN /\ local_cache' = LocalAfterRedisHit(local_cache, lookups[i].agent_id,
                                                 lookups[i].data[1])
            /\ lookups' = [lookups EXCEPT ![i] =
                              LookupReturned(@, ParseConfigs(@.data[1]))]
       ELSE /\ lookups' = [lookups EXCEPT ![i].pc = "fetch"]
            /\ UNCHANGED local_cache
    /\ UNCHANGED <<redis_cache, agents, invalidation>>
    /\ UNCHANGED <<documents_rag, points>>
    /\ UNCHANGED <<lastSearch, deleteOp, updateOp, agentLaw, storeOp>>
    /\ UNCHANGED ingestionVars
    /\ UNCHANGED serviceVars

\* _fetch_from_supabase reads the row; without a row, or when the request
\* raised, it returns None, line 90 raises and line 100 returns the defaults
FetchFromSupabase(i, ok) ==
    /\ lookups[i].pc = "fetch"
    /\ lookups' = [lookups EXCEPT ![i] =
                      IF ok /\ agents[@.agent_id] # <<>>
                      THEN [@ EXCEPT !.pc = "save_redis",
                                     !.data = agents[lookups[i].agent_id],
                                     !.trace = Append(@, "store")]
                      ELSE LookupReturned([@ EXCEPT !.trace = Append(@, "store")],
                                    DefaultConfigs)]
    /\ UNCHANGED <<local_cache, redis_cache, agents, invalidation>>
    /\ UNCHANGED <<documents_rag, points>>
    /\ UNCHANGED <<lastSearch, deleteOp, updateOp, agentLaw, storeOp>>
    /\ UNCHANGED ingestionVars
    /\ UNCHANGED serviceVars

\* _save_to_cache, lines 151-155: the shared cache takes the row; a save that
\* raised ends the call at line 100 before line 158
SaveRedis(i, ok) ==
    /\ lookups[i].pc = "save_redis"
    /\ IF ok
       THEN /\ redis_cache' = [redis_cache EXCEPT ![lookups[i].agent_id] =
                                                     lookups[i].data]
            /\ lookups' = [lookups EXCEPT ![i] =
                              [@ EXCEPT !.pc = "save_local",
                                        !.trace = Append(@, "L2_save")]]
       ELSE /\ lookups' = [lookups EXCEPT ![i] = LookupReturned(@, DefaultConfigs)]
            /\ UNCHANGED redis_cache
    /\ UNCHANGED <<local_cache, agents, invalidation>>
    /\ UNCHANGED <<documents_rag, points>>
    /\ UNCHANGED <<lastSearch, deleteOp, updateOp, agentLaw, storeOp>>
    /\ UNCHANGED ingestionVars
    /\ UNCHANGED serviceVars

\* _save_to_cache, line 158, and the return of line 95
SaveLocal(i) ==
    /\ lookups[i].pc = "save_local"
    /\ local_cache' = [local_cache EXCEPT ![lookups[i].agent_id] =
                                             <<lookups[i].data[1], FALSE>>]
    /\ lookups' = [lookups EXCEPT ![i] =
                      LookupReturned([@ EXCEPT !.trace = Append(@, "L1_save")],
                               ParseConfigs(@.data[1]))]
    /\ UNCHANGED <<redis_cache, agents, invalidation>>
    /\ UNCHANGED <<documents_rag, points>>
    /\ UNCHANGED <<lastSearch, deleteOp, updateOp, agentLaw, storeOp>>
    /\ UNCHANGED ingestionVars
    /\ UNCHANGED serviceVars

\* a writer updates the row of an agent in the agents table
WriteStore(agent_id, parsable) ==
    /\ agents[agent_id] # <<>>
    /\ agents[agent_id][1].row < MaxVersions
    /\ agents' = [agents EXCEPT ![agent_id] =
                     <<[row |-> @[1].row + 1, parsable |-> parsable]>>]
    /\ UNCHANGED <<local_cache, redis_cache, lookups, invalidation>>
    /\ UNCHANGED <<documents_rag, points>>
    /\ UNCHANGED <<lastSearch, deleteOp, updateOp, agentLaw, storeOp>>
    /\ UNCHANGED ingestionVars
    /\ UNCHANGED serviceVars

\* line 111 emptying the whole map
PopLocalClearsAll(cache, agent_id) == [a \in DOMAIN cache |-> <<>>]

\* line 111: _local_cache.pop(cache_key, None)
PopLocal(cache, agent_id) == [cache EXCEPT ![agent_id] = <<>>]

\* the get_agent_configs calls that have begun
Begun == {i \in LookupIds : lookups[i].pc # "idle"}
\* the get_agent_configs calls that are running
Running == {i \in LookupIds : lookups[i].pc \notin {"idle", "done"}}

\* invalidate_agent_config, lines 108-117: the entry leaves _local_cache and
\* the delete is sent to the shared cache.  The record keeps the agent's row
\* at the call, the get_agent_configs calls begun so far, and whether none
\* was running.
InvalidateLocal(agent_id) ==
    /\ invalidation.pc \in {"idle", "done", "raised"}
    /\ local_cache' = PopLocal(local_cache, agent_id)
    /\ invalidation' = [pc |-> "redis_delete",
                        agent_id |-> agent_id,
                        store |-> agents[agent_id],
                        begun |-> Begun,
                        alone |-> Running = {}]
    /\ UNCHANGED <<redis_cache, agents, lookups>>
    /\ UNCHANGED <<documents_rag, points>>
    /\ UNCHANGED <<lastSearch, deleteOp, updateOp, agentLaw, storeOp>>
    /\ UNCHANGED ingestionVars
    /\ UNCHANGED serviceVars

\* cache_manager.delete takes effect and invalidate_agent_config returns, or
\* the delete raised and so does invalidate_agent_config.  `alone` then tells
\* that no get_agent_configs call ran between the call and the return.
InvalidateRedis(ok) ==
    /\ invalidation.pc = "redis_delete"
    /\ IF ok
       THEN /\ redis_cache' = [redis_cache EXCEPT ![invalidation.agent_id] = <<>>]
            /\ invalidation' = [invalidation EXCEPT
                                   !.pc = "done",
                                   !.begun = Begun,
                                   !.alone = @ /\ Running = {}
                                               /\ Begun = invalidation.begun]
       ELSE /\ invalidation' = [invalidation EXCEPT !.pc = "raised"]
            /\ UNCHANGED redis_cache
    /\ UNCHANGED <<local_cache, agents, lookups>>
    /\ UNCHANGED <<documents_rag, points>>
    /\ UNCHANGED <<lastSearch, deleteOp, updateOp, agentLaw, storeOp>>
    /\ UNCHANGED ingestionVars
    /\ UNCHANGED serviceVars

\* an entry of the shared cache reaches its TTL
RedisExpire(agent_id) ==
    /\ redis_cache[agent_id] # <<>>
    /\ redis_cache' = [redis_cache EXCEPT ![agent_id] = <<>>]
    /\ UNCHANGED <<local_cache, agents, lookups, invalidation>>
    /\ UNCHANGED <<documents_rag, points>>
    /\ UNCHANGED <<lastSearch, deleteOp, updateOp, agentLaw, storeOp>>
    /\ UNCHANGED ingestionVars
    /\ UNCHANGED serviceVars

\* config_cache_ttl passes since an entry of _local_cache was written
LocalEntryAges(agent_id) ==
    /\ local_cache[agent_id] # <<>>
    /\ ~local_cache[agent_id][2]
    /\ local_cache' = [local_cache EXCEPT ![agent_id] = <<@[1], TRUE>>]
    /\ UNCHANGED <<redis_cache, agents, lookups, invalidation>>
    /\ UNCHANGED <<documents_rag, points>>
    /\ UNCHANGED <<lastSearch, deleteOp, updateOp, agentLaw, storeOp>>
    /\ UNCHANGED ingestionVars
    /\ UNCHANGED serviceVars

\* cleanup_local_cache: the entries older than the TTL leave _local_cache
CleanupLocalCache ==
    /\ \E a \in DOMAIN local_cache : local_cache[a] # <<>> /\ local_cache[a][2]
    /\ local_cache' = [a \in DOMAIN local_cache |->
                          IF local_cache[a] # <<>> /\ local_cache[a][2]
                          THEN <<>> ELSE local_cache[a]]
    /\ UNCHANGED <<redis_cache, agents, lookups, invalidation>>
    /\ UNCHANGED <<documents_rag, points>>
    /\ UNCHANGED <<lastSearch, deleteOp, updateOp, agentLaw, storeOp>>
    /\ UNCHANGED ingestionVars
    /\ UNCHANGED serviceVars

\* the service starts with empty caches; the agent the writer works on has a
\* row or none, the other agents have a row the writer leaves alone
ConfigInit ==
    /\ IngestionIdle
    /\ documents_rag = {}
    /\ points = {}
    /\ SearchIdle /\ DeleteIdle /\ UpdateIdle /\ LawIdle /\ StoreIdle
    /\ ServicesIdle
    /\ local_cache = [a \in Agents |-> <<>>]
    /\ redis_cache = [a \in Agents |-> <<>>]
    /\ agents \in {f \in [Agents -> {<<>>} \cup {<<r>> : r \in AgentRows}] :
                     /\ f[WrittenAgent] = <<>> \/ f[WrittenAgent][1].row = 1
                     /\ \A a \in Agents \ {WrittenAgent} :
                           f[a] = <<[row |-> 1, parsable |-> TRUE]>>}
    /\ lookups = [i \in LookupIds |->
                     [pc |-> "idle", agent_id |-> "", data |-> <<>>,
                      trace |-> <<>>, returned |-> <<>>]]
    /\ invalidation = [pc |-> "idle"]

ConfigNext ==
    \/ \E i \in LookupIds, agent_id \in Agents : StartLookup(i, agent_id)
    \/ \E i \in LookupIds, ok \in BOOLEAN : RedisGet(i, ok)
    \/ \E i \in LookupIds : AfterRedisGet(i)
    \/ \E i \in LookupIds, ok \in BOOLEAN : FetchFromSupabase(i, ok)
    \/ \E i \in LookupIds, ok \in BOOLEAN : SaveRedis(i, ok)
    \/ \E i \in LookupIds : SaveLocal(i)
    \/ \E parsable \in BOOLEAN : WriteStore(WrittenAgent, parsable)
    \/ \E agent_id \in Agents : InvalidateLocal(agent_id)
    \/ \E ok \in BOOLEAN : InvalidateRedis(ok)
    \/ \E agent_id \in Agents : RedisExpire(agent_id)
    \/ \E agent_id \in Agents : LocalEntryAges(agent_id)
    \/ CleanupLocalCache

ConfigSpec == ConfigInit /\ [][ConfigNext]_vars

(* --------------------- SupabaseClient.get_agent_config ----------------- *)

\* A row of the view agents_with_prompt is a dict: a function from the keys it
\* has to optional values, <<>> for null and <<v>> for v.  A config block is a
\* dict of plain values; its keys are the ones the view stores.

None == <<>>
EmptyDict == [k \in {} |-> ""]

\* data.get(key) and data.get(key, default)
Get(data, key) == IF key \in DOMAIN data THEN data[key] ELSE None
GetOr(data, key, default) == IF key \in DOMAIN data THEN data[key] ELSE default

\* Python's truth of an optional string and of an optional dict
TruthyStr(v) == v # None /\ v[1] # ""
TruthyDict(v) == v # None /\ DOMAIN v[1] # {}

\* the restriction of a dict to some keys
Only(cfg, keys) == [k \in DOMAIN cfg \cap keys |-> cfg[k]]

\* the camelCase spelling of a column
CamelKey(key) ==
    CASE key = "user_id" -> "userId"
      [] key = "system_prompt" -> "systemPrompt"
      [] key = "query_config" -> "queryConfig"
      [] key = "rag_config" -> "ragConfig"
      [] key = "execution_config" -> "executionConfig"
      [] key = "is_active" -> "isActive"
      [] OTHER -> key

\* the columns a row carries, in snake_case
Columns == {"id", "user_id", "name", "system_prompt", "query_config",
            "rag_config", "execution_config", "is_active"}

\* the same row with its columns spelled in camelCase
CamelRow(row) ==
    [k \in {CamelKey(c) : c \in DOMAIN row} |->
        row[CHOOSE c \in DOMAIN row : CamelKey(c) = k]]

\* the query_config, rag_config and execution_config blocks a row may store
QueryConfigs ==
    { None, <<EmptyDict>>,
      <<[model |-> "model_q"]>>,
      <<[model |-> "model_q", system_prompt_template |-> ""]>>,
      <<[model |-> "model_q", system_prompt_template |-> "template",
         stream |-> "true"]>> }
StoredRagConfigs ==
    { None, <<EmptyDict>>,
      <<[collection_ids |-> <<>>]>>,
      <<[collection_ids |-> <<"col_Y">>, encoding_format |-> "base64",
         rerank |-> "true"]>> }
ExecutionConfigs ==
    { None, <<[history_window |-> 5, timeout_seconds |-> 30]>>,
      <<[history_window |-> 5, max_history_length |-> 9, verbose |-> 1]>> }

\* the rows of the view, in snake_case
AgentViewRows ==
    { [id |-> <<"agent_a">>, name |-> <<"name">>, user_id |-> u,
       system_prompt |-> p, query_config |-> q, rag_config |-> r,
       execution_config |-> e, is_active |-> a] :
         u \in {None, <<"">>, <<"tenant_x">>},
         p \in {None, <<"">>, <<"prompt">>},
         q \in QueryConfigs, r \in StoredRagConfigs, e \in ExecutionConfigs,
         a \in {<<TRUE>>, <<FALSE>>} }

\* `a or b` on optional strings and on optional dicts
OrStr(a, b) == IF TruthyStr(a) THEN a ELSE b
OrDict(a, b) == IF TruthyDict(a) THEN a ELSE b

\* _transform_agent_data reading the snake_case columns only
TransformSnakeOnly(data) ==
    [id |-> Get(data, "id"),
     user_id |-> Get(data, "user_id"),
     name |-> Get(data, "name"),
     system_prompt |-> Get(data, "system_prompt"),
     query_config |-> GetOr(data, "query_config", <<EmptyDict>>),
     rag_config |-> GetOr(data, "rag_config", <<EmptyDict>>),
     execution_config |-> GetOr(data, "execution_config", <<EmptyDict>>),
     is_active |-> GetOr(data, "is_active", <<TRUE>>)]

\* _transform_agent_data, the columns get_agent_config goes on to use and
\* is_active (template_id, description, icon, system_prompt_override,
\* is_public and the two timestamps are read the same way)
TransformAgentData(data) ==
    [id |-> Get(data, "id"),
     user_id |-> OrStr(Get(data, "user_id"), Get(data, "userId")),
     name |-> Get(data, "name"),
     system_prompt |-> OrStr(Get(data, "system_prompt"), Get(data, "systemPrompt")),
     query_config |-> OrDict(Get(data, "query_config"),
                             GetOr(data, "queryConfig", <<EmptyDict>>)),
     rag_config |-> OrDict(Get(data, "rag_config"),
                           GetOr(data, "ragConfig", <<EmptyDict>>)),
     execution_config |-> OrDict(Get(data, "execution_config"),
                                 GetOr(data, "executionConfig", <<EmptyDict>>)),
     is_active |-> IF "is_active" \in DOMAIN data THEN Get(data, "is_active")
                   ELSE GetOr(data, "isActive", <<TRUE>>)]

\* the dict one `if key in cfg: normalized[to] = cfg[key]` leaves
Mapped(cfg, key, to) ==
    IF key \in DOMAIN cfg THEN [k \in {to} |-> cfg[key]] ELSE EmptyDict

\* _normalize_execution_config: a later assignment overwrites an earlier one
NormalizeExecutionConfig(cfg) ==
    Mapped(cfg, "max_iterations", "max_iterations")
      @@ Mapped(cfg, "tool_timeout", "tool_timeout")
      @@ Mapped(cfg, "timeout_seconds", "tool_timeout")
      @@ Mapped(cfg, "history_enabled", "enable_history_cache")
      @@ Mapped(cfg, "max_history_length", "max_history_length")
      @@ Mapped(cfg, "history_window", "max_history_length")
      @@ Mapped(cfg, "history_ttl", "history_ttl")

QueryAllowed ==
    {"model", "temperature", "max_tokens", "top_p", "frequency_penalty",
     "presence_penalty", "stop", "max_context_tokens", "enable_parallel_search",
     "timeout", "max_retries", "system_prompt_template"}

\* _normalize_query_config
NormalizeQueryConfig(cfg, system_prompt) ==
    LET normalized == Only(cfg, QueryAllowed)
    IN  IF \/ "system_prompt_template" \notin DOMAIN normalized
           \/ normalized.system_prompt_template = ""
        THEN [k \in {"system_prompt_template"} |->
                 IF TruthyStr(system_prompt) THEN system_prompt[1] ELSE ""]
               @@ normalized
        ELSE normalized

RagAllowed ==
    {"collection_ids", "document_ids", "embedding_model", "embedding_dimensions",
     "encoding_format", "top_k", "similarity_threshold", "timeout",
     "max_retries", "max_text_length"}

\* _normalize_rag_config
NormalizeRagConfig(cfg, default_collections) ==
    LET normalized == Only(cfg, RagAllowed)
        withCollections ==
            IF "collection_ids" \notin DOMAIN normalized
                  \/ normalized.collection_ids = <<>>
            THEN [k \in {"collection_ids"} |->
                     IF default_collections # <<>> THEN default_collections
                     ELSE <<"default">>] @@ normalized
            ELSE normalized
    IN  IF "encoding_format" \notin DOMAIN withCollections
        THEN [k \in {"encoding_format"} |-> "float"] @@ withCollections
        ELSE withCollections

\* `x or {}` of lines 126-128
DictOrEmpty(v) == IF TruthyDict(v) THEN v[1] ELSE EmptyDict

\* uuid.UUID(value) returns: value is a string that spells a UUID
IsUuid(v) == v # None /\ v[1] # ""

\* get_agent_config on the row the view returned: <<config>>, or <<>> when
\* line 130-139 raised and the call ends in SupabaseError
AgentConfigOf(data) ==
    LET agent_data == TransformAgentData(data)
    IN  IF IsUuid(agent_data.id) /\ IsUuid(agent_data.user_id)
        THEN <<[agent_id |-> agent_data.id[1],
                agent_name |-> agent_data.name,
                tenant_id |-> agent_data.user_id[1],
                execution_config |->
                    NormalizeExecutionConfig(DictOrEmpty(agent_data.execution_config)),
                query_config |->
                    NormalizeQueryConfig(DictOrEmpty(agent_data.query_config),
                                         agent_data.system_prompt),
                rag_config |->
                    NormalizeRagConfig(DictOrEmpty(agent_data.rag_config),
                                       <<"default">>)]>>
        ELSE <<>>

\* one get_agent_config call on a row spelled in snake_case or in camelCase;
\* the record keeps what the other spelling of the row gives
GetAgentConfig(row, camel) ==
    /\ normalizer.pc = "idle"
    /\ normalizer' = [pc |-> "done",
                      row |-> row,
                      camel |-> camel,
                      config |-> AgentConfigOf(IF camel THEN CamelRow(row) ELSE row),
                      other |-> AgentConfigOf(IF camel THEN row ELSE CamelRow(row))]
    /\ UNCHANGED <<chats, wire, conversations, messages, workers, embedOp, statusOp>>
    /\ UNCHANGED <<documents_rag, points>>
    /\ UNCHANGED <<lastSearch, deleteOp, updateOp, agentLaw, storeOp>>
    /\ UNCHANGED configVars
    /\ UNCHANGED ingestionVars

NormalizerInit ==
    /\ IngestionIdle
    /\ OthersIdle
    /\ documents_rag = {}
    /\ points = {}

NormalizerNext ==
    \E row \in AgentViewRows, camel \in BOOLEAN : GetAgentConfig(row, camel)

NormalizerSpec == NormalizerInit /\ [][NormalizerNext]_vars

(* ---------------------- ChatHandler.process_chat_message --------------- *)

ChatIds == 1..MaxChats

\* the sessions a message may arrive on
SessionStates ==
    { [tenant_id |-> "tenant_x", session_id |-> "session_1", agent_id |-> "agent_a"],
      [tenant_id |-> "tenant_y", session_id |-> "session_2", agent_id |-> "agent_b"] }

\* the ChatRequest of a message: with or without a task_id, without tools,
\* with an empty tool list or with a tool, and with whatever ids the client
\* put in it
ChatRequests ==
    [task_id : {None, <<<<"task_given", 0>>>>},
     tools : {None, <<<<>>>>, <<<<"tool">>>>},
     agent_id : {None, <<"agent_b">>}]

\* line 91 with the test on tools left out
ModeAlwaysSimple(tools) == "simple"

\* line 91: "advance" if message_request.tools else "simple"
Mode(tools) == IF tools # None /\ tools[1] # <<>> THEN "advance" ELSE "simple"

\* execution_client.py line 53: f"execution.chat.{mode}"
ActionType(mode) ==
    IF mode = "advance" THEN "execution.chat.advance" ELSE "execution.chat.simple"

\* lines 59-63: the task_id of the request, or a fresh one from
\* create_task_id; when create_task_id raised the call goes to line 122
ReceiveChat(i, session_state, message_request, created) ==
    /\ chats[i].pc = "idle"
    /\ chats' = [chats EXCEPT ![i] =
                    [pc |-> IF message_request.task_id # None \/ created
                            THEN "configs" ELSE "error",
                     session_state |-> session_state,
                     message_request |-> message_request,
                     task_id |-> IF message_request.task_id # None
                                 THEN message_request.task_id
                                 ELSE IF created THEN <<<<"task_created", i>>>>
                                 ELSE None,
                     mode |-> ""]]
    /\ UNCHANGED wire
    /\ UNCHANGED <<normalizer, conversations, messages, workers, embedOp, statusOp>>
    /\ UNCHANGED <<documents_rag, points>>
    /\ UNCHANGED <<lastSearch, deleteOp, updateOp, agentLaw, storeOp>>
    /\ UNCHANGED configVars
    /\ UNCHANGED ingestionVars

\* lines 76-91: get_agent_configs returns (it never raises), the request
\* takes the ids of the session and the task_id, and the mode is chosen
CompleteRequest(i) ==
    /\ chats[i].pc = "configs"
    /\ chats' = [chats EXCEPT ![i] =
                    [@ EXCEPT !.pc = "notify",
                              !.message_request =
                                  [tools |-> @.tools,
                                   tenant_id |-> <<chats[i].session_state.tenant_id>>,
                                   session_id |-> <<chats[i].session_state.session_id>>,
                                   agent_id |-> <<chats[i].session_state.agent_id>>,
                                   task_id |-> chats[i].task_id],
                              !.mode = Mode(chats[i].message_request.tools)]]
    /\ UNCHANGED wire
    /\ UNCHANGED <<normalizer, conversations, messages, workers, embedOp, statusOp>>
    /\ UNCHANGED <<documents_rag, points>>
    /\ UNCHANGED <<lastSearch, deleteOp, updateOp, agentLaw, storeOp>>
    /\ UNCHANGED configVars
    /\ UNCHANGED ingestionVars

\* lines 94-103: the chat_processing message goes to the session, or
\* send_to_session raised
NotifyProcessing(i, ok) ==
    /\ chats[i].pc = "notify"
    /\ IF ok
       THEN /\ wire' = Append(wire,
                          [to |-> "session",
                           chat |-> i,
                           session_id |-> chats[i].session_state.session_id,
                           message_type |-> "chat_processing",
                           task_id |-> chats[i].task_id,
                           status |-> "processing",
                           mode |-> chats[i].mode])
            /\ chats' = [chats EXCEPT ![i].pc = "execute"]
       ELSE /\ chats' = [chats EXCEPT ![i].pc = "error"]
            /\ UNCHANGED wire
    /\ UNCHANGED <<normalizer, conversations, messages, workers, embedOp, statusOp>>
    /\ UNCHANGED <<documents_rag, points>>
    /\ UNCHANGED <<lastSearch, deleteOp, updateOp, agentLaw, storeOp>>
    /\ UNCHANGED configVars
    /\ UNCHANGED ingestionVars

\* lines 106-112 and execute_chat: the action built from the request is sent
\* with its callback, or the send raised
ExecuteChat(i, ok) ==
    /\ chats[i].pc = "execute"
    /\ IF ok
       THEN /\ wire' = Append(wire,
                          [to |-> "execution",
                           chat |-> i,
                           action_type |-> ActionType(chats[i].mode),
                           callback_action_type |-> "orchestrator.chat.response",
                           tenant_id |-> chats[i].message_request.tenant_id,
                           session_id |-> chats[i].message_request.session_id,
                           task_id |-> chats[i].message_request.task_id,
                           agent_id |-> chats[i].message_request.agent_id,
                           tools |-> chats[i].message_request.tools])
            /\ chats' = [chats EXCEPT ![i].pc = "done"]
       ELSE /\ chats' = [chats EXCEPT ![i].pc = "error"]
            /\ UNCHANGED wire
    /\ UNCHANGED <<normalizer, conversations, messages, workers, embedOp, statusOp>>
    /\ UNCHANGED <<documents_rag, points>>
    /\ UNCHANGED <<lastSearch, deleteOp, updateOp, agentLaw, storeOp>>
    /\ UNCHANGED configVars
    /\ UNCHANGED ingestionVars

\* lines 122-138: the error goes to the session; when send_error_to_session
\* raised too, process_chat_message raises
SendErrorToSession(i, ok) ==
    /\ chats[i].pc = "error"
    /\ IF ok
       THEN /\ wire' = Append(wire,
                          [to |-> "session",
                           chat |-> i,
                           session_id |-> chats[i].session_state.session_id,
                           message_type |-> "chat_processing_error",
                           task_id |-> chats[i].task_id])
            /\ chats' = [chats EXCEPT ![i].pc = "failed"]
       ELSE /\ chats' = [chats EXCEPT ![i].pc = "raised"]
            /\ UNCHANGED wire
    /\ UNCHANGED <<normalizer, conversations, messages, workers, embedOp, statusOp>>
    /\ UNCHANGED <<documents_rag, points>>
    /\ UNCHANGED <<lastSearch, deleteOp, updateOp, agentLaw, storeOp>>
    /\ UNCHANGED configVars
    /\ UNCHANGED ingestionVars

ChatInit ==
    /\ IngestionIdle
    /\ documents_rag = {}
    /\ points = {}
    /\ SearchIdle /\ DeleteIdle /\ UpdateIdle /\ LawIdle /\ StoreIdle /\ ConfigIdle
    /\ NormalizerIdle /\ ConversationIdle /\ EmbedIdle /\ StatusIdle
    /\ chats = [i \in ChatIds |-> [pc |-> "idle"]]
    /\ wire = <<>>

ChatNext ==
    \/ \E i \in ChatIds, session_state \in SessionStates,
          message_request \in ChatRequests, created \in BOOLEAN :
          ReceiveChat(i, session_state, message_request, created)
    \/ \E i \in ChatIds : CompleteRequest(i)
    \/ \E i \in ChatIds, ok \in BOOLEAN : NotifyProcessing(i, ok)
    \/ \E i \in ChatIds, ok \in BOOLEAN : ExecuteChat(i, ok)
    \/ \E i \in ChatIds, ok \in BOOLEAN : SendErrorToSession(i, ok)

ChatSpec == ChatInit /\ [][ChatNext]_vars

(* ---------------------- ConversationWorker._handle_action -------------- *)

WorkerIds == 1..MaxWorkers

\* str(x) of an optional id: a missing id becomes the text "None"
Str(x) == IF x = None THEN "None" ELSE x[1]

\* str(action.agent_id) if action.agent_id else ""
StrOrEmpty(x) == IF x = None THEN "" ELSE x[1]

\* Python's truth value of data.get(field): a missing field and "" are false
Present(x) == x # None /\ x[1] # ""

\* the context of the actions that reach the conversation queue: tenant_id
\* is always there, session_id and agent_id are optional
Contexts ==
    { [tenant_id |-> "tenant_x", session_id |-> <<"session_1">>, agent_id |-> <<"agent_a">>],
      [tenant_id |-> "tenant_x", session_id |-> <<"session_1">>, agent_id |-> <<"agent_b">>],
      [tenant_id |-> "tenant_x", session_id |-> None, agent_id |-> <<"agent_a">>],
      [tenant_id |-> "tenant_x", session_id |-> <<"session_1">>, agent_id |-> None] }

FullContext == [tenant_id |-> "tenant_x", session_id |-> <<"session_1">>, agent_id |-> <<"agent_a">>]

\* the data of a conversation.message.create with every field
ExchangeData ==
    [conversation_id : {<<"conv_1">>, <<"conv_2">>}, user_message : {<<"hi">>}, agent_message : {<<"hello">>}]

\* the same with a field absent or empty
PartialData ==
    { [conversation_id |-> None, user_message |-> <<"hi">>, agent_message |-> <<"hello">>],
      [conversation_id |-> <<"conv_1">>, user_message |-> None, agent_message |-> <<"hello">>],
      [conversation_id |-> <<"conv_1">>, user_message |-> <<"hi">>, agent_message |-> <<"">>] }

NoData == [conversation_id |-> None, user_message |-> None, agent_message |-> None]

Action(action_type, context, data) ==
    [action_type |-> action_type,
     tenant_id |-> context.tenant_id,
     session_id |-> context.session_id,
     agent_id |-> context.agent_id,
     conversation_id |-> data.conversation_id,
     user_message |-> data.user_message,
     agent_message |-> data.agent_message]

MessageCreateActions ==
    { Action("conversation.message.create", c, d) : c \in Contexts, d \in ExchangeData }
    \cup { Action("conversation.message.create", FullContext, d) : d \in PartialData }

OtherActions ==
    { Action("conversation.session.closed", c, NoData) : c \in Contexts }
    \cup { Action("conversation.unknown", FullContext, NoData) }

ConversationActions == MessageCreateActions \cup OtherActions

\* actions taken off the queue so far; each one reads the clock later
RECURSIVE HandledBy(_)
HandledBy(n) == IF n = 0 THEN 0 ELSE workers[n].handled + HandledBy(n - 1)

Handled == HandledBy(MaxWorkers)

\* datetime.utcnow() at line 128
UtcNow == Handled

\* conversation_worker.py lines 73-75
MissingFields(action) ==
    { f \in {"conversation_id", "user_message", "agent_message"} : ~Present(action[f]) }

\* persistence_service.py line 50: not all([...])
Incomplete(conversation_id, tenant_id, session_id, agent_id, user_message, agent_message) ==
    \/ conversation_id = "" \/ tenant_id = "" \/ session_id = "" \/ agent_id = ""
    \/ user_message = "" \/ agent_message = ""

\* what the worker hands to save_conversation_exchange (lines 84-93) and to
\* mark_conversation_ended (lines 113-117)
Arguments(action) ==
    [conversation_id |-> StrOrEmpty(action.conversation_id),
     tenant_id |-> Str(<<action.tenant_id>>),
     session_id |-> Str(action.session_id),
     agent_id |-> StrOrEmpty(action.agent_id),
     user_message |-> StrOrEmpty(action.user_message),
     agent_message |-> StrOrEmpty(action.agent_message)]

\* lines 145-156 with the exception of a failed save raised again
HandlerRethrows(result) == IF result.outcome = "failed" THEN "raised" ELSE "None"

\* what _handle_action gives back to the worker loop: None on every path
\* (lines 81, 109, 136, 143, 156), whatever the persistence call reported
HandlerReturn(result) == "None"

Returns(w, result) ==
    [workers EXCEPT ![w] = [@ EXCEPT !.pc = "idle", !.result = result,
                                     !.returned = HandlerReturn(result)]]

ConversationFrame ==
    /\ UNCHANGED <<normalizer, chats, wire, embedOp, statusOp>>
    /\ UNCHANGED <<documents_rag, points>>
    /\ UNCHANGED <<lastSearch, deleteOp, updateOp, agentLaw, storeOp>>
    /\ UNCHANGED configVars
    /\ UNCHANGED ingestionVars

\* _handle_action up to its first await: the checks of the worker (73-81),
\* of save_conversation_exchange (50-51) and of mark_conversation_ended
\* (120-122); nothing is written and _handle_action returns None when a
\* check fails
HandleAction(w, action) ==
    /\ workers[w].pc = "idle"
    /\ Handled < MaxActions
    /\ LET a == Arguments(action)
           next ==
               IF action.action_type = "conversation.message.create"
               THEN IF MissingFields(action) # {} THEN "skipped"
                    ELSE IF Incomplete(a.conversation_id, a.tenant_id, a.session_id,
                                       a.agent_id, a.user_message, a.agent_message)
                         THEN "failed"
                         ELSE "select"
               ELSE IF action.action_type = "conversation.session.closed"
               THEN IF a.tenant_id = "" \/ a.session_id = "" \/ a.agent_id = ""
                    THEN "not_closed"
                    ELSE "update"
               ELSE "unsupported"
       IN  workers' = [workers EXCEPT ![w] =
                          [pc |-> IF next \in {"select", "update"} THEN next ELSE "idle",
                           action |-> action,
                           args |-> a,
                           handled |-> @.handled + 1,
                           result |-> IF next \in {"select", "update"}
                                      THEN [success |-> FALSE, outcome |-> "running"]
                                      ELSE [success |-> FALSE, outcome |-> next],
                           returned |-> IF next \in {"select", "update"}
                                        THEN "pending"
                                        ELSE HandlerReturn([success |-> FALSE, outcome |-> next])]]
    /\ UNCHANGED <<conversations, messages>>
    /\ ConversationFrame

\* _get_or_create_conversation lines 170-183: the row with this id is
\* there and is returned, or the select raised (single() on no row, or any
\* failure) and the exception is dropped
SelectConversation(w, ok) ==
    /\ workers[w].pc = "select"
    /\ LET found == \E r \in conversations : r.id = workers[w].args.conversation_id
       IN  workers' = [workers EXCEPT ![w].pc =
                          IF ok /\ found THEN "user_message" ELSE "insert"]
    /\ UNCHANGED <<conversations, messages>>
    /\ ConversationFrame

\* the row a new Conversation dumps to: active, not ended
NewConversation(conversation_id, tenant_id, session_id, agent_id) ==
    [id |-> conversation_id, tenant_id |-> tenant_id, session_id |-> session_id,
     agent_id |-> agent_id, is_active |-> TRUE, ended_at |-> None]

\* the conversations table with id as its key: an insert of a row whose id
\* is taken is refused
InsertRow(rows, row) ==
    IF \E r \in rows : r.id = row.id THEN rows ELSE rows \cup {row}

\* lines 185-198: the insert of the new row; when it is refused or fails,
\* save_conversation_exchange returns success False (98-109)
InsertConversation(w, ok) ==
    /\ workers[w].pc = "insert"
    /\ LET a == workers[w].args
           row == NewConversation(a.conversation_id, a.tenant_id, a.session_id, a.agent_id)
           stored == IF ok THEN InsertRow(conversations, row) ELSE conversations
       IN  /\ conversations' = stored
           /\ workers' = IF stored # conversations
                         THEN [workers EXCEPT ![w].pc = "user_message"]
                         ELSE Returns(w, [success |-> FALSE, outcome |-> "failed"])
    /\ UNCHANGED messages
    /\ ConversationFrame

\* lines 62-79 with the two messages the other way round
RolesAssistantFirst == <<"assistant", "user">>

\* lines 62-79: the user message is saved first, then the agent's
Roles == <<"user", "assistant">>

\* the Message built at 62-67 (n = 1) and at 72-77 (n = 2)
MessageOf(w, n) ==
    [id |-> <<w, workers[w].handled, n>>,
     conversation_id |-> workers[w].args.conversation_id,
     role |-> Roles[n],
     content |-> IF Roles[n] = "user" THEN workers[w].args.user_message
                                      ELSE workers[w].args.agent_message]

\* line 69 and _save_message
SaveUserMessage(w, ok) ==
    /\ workers[w].pc = "user_message"
    /\ IF ok
       THEN /\ messages' = Append(messages, MessageOf(w, 1))
            /\ workers' = [workers EXCEPT ![w].pc = "agent_message"]
       ELSE /\ workers' = Returns(w, [success |-> FALSE, outcome |-> "failed"])
            /\ UNCHANGED messages
    /\ UNCHANGED conversations
    /\ ConversationFrame

\* line 79 and _save_message, then the result of lines 91-96
SaveAgentMessage(w, ok) ==
    /\ workers[w].pc = "agent_message"
    /\ IF ok
       THEN /\ messages' = Append(messages, MessageOf(w, 2))
            /\ workers' = Returns(w, [success |-> TRUE, outcome |-> "saved",
                                      conversation_id |-> workers[w].args.conversation_id,
                                      user_message_id |-> MessageOf(w, 1).id,
                                      agent_message_id |-> MessageOf(w, 2).id])
       ELSE /\ workers' = Returns(w, [success |-> FALSE, outcome |-> "failed"])
            /\ UNCHANGED messages
    /\ UNCHANGED conversations
    /\ ConversationFrame

\* lines 130-133 with the filter on agent_id left out
ActiveRowOfTheSession(r, tenant_id, session_id, agent_id) ==
    r.tenant_id = tenant_id /\ r.session_id = session_id /\ r.is_active

\* lines 130-133: the filter of the update
ActiveRowOf(r, tenant_id, session_id, agent_id) ==
    /\ r.tenant_id = tenant_id
    /\ r.session_id = session_id
    /\ r.agent_id = agent_id
    /\ r.is_active

\* lines 125-134: the rows after the update
EndedRows(rows, tenant_id, session_id, agent_id) ==
    { IF ActiveRowOf(r, tenant_id, session_id, agent_id)
      THEN [r EXCEPT !.is_active = FALSE, !.ended_at = <<UtcNow>>]
      ELSE r : r \in rows }

\* mark_conversation_ended lines 125-160: True when the update returned
\* rows, False when it returned none or raised
MarkConversationEnded(w, ok) ==
    /\ workers[w].pc = "update"
    /\ LET a == workers[w].args
           ended == IF ok THEN EndedRows(conversations, a.tenant_id, a.session_id, a.agent_id)
                          ELSE conversations
       IN  /\ conversations' = ended
           /\ workers' = Returns(w, IF ended # conversations
                                    THEN [success |-> TRUE, outcome |-> "closed"]
                                    ELSE [success |-> FALSE, outcome |-> "not_closed"])
    /\ UNCHANGED messages
    /\ ConversationFrame

\* a conversation of the same session that was closed before the workers
\* started
EarlierConversation ==
    [NewConversation("conv_0", "tenant_x", "session_1", "agent_a")
        EXCEPT !.is_active = FALSE, !.ended_at = <<0>>]

ConversationInit ==
    /\ IngestionIdle
    /\ documents_rag = {}
    /\ points = {}
    /\ SearchIdle /\ DeleteIdle /\ UpdateIdle /\ LawIdle /\ StoreIdle /\ ConfigIdle
    /\ NormalizerIdle /\ ChatIdle /\ EmbedIdle /\ StatusIdle
    /\ conversations \in {{}, {EarlierConversation}}
    /\ messages = <<>>
    /\ workers = [w \in WorkerIds |-> [pc |-> "idle", handled |-> 0]]

ConversationNext ==
    \/ \E w \in WorkerIds, action \in ConversationActions : HandleAction(w, action)
    \/ \E w \in WorkerIds, ok \in BOOLEAN : SelectConversation(w, ok)
    \/ \E w \in WorkerIds, ok \in BOOLEAN : InsertConversation(w, ok)
    \/ \E w \in WorkerIds, ok \in BOOLEAN : SaveUserMessage(w, ok)
    \/ \E w \in WorkerIds, ok \in BOOLEAN : SaveAgentMessage(w, ok)
    \/ \E w \in WorkerIds, ok \in BOOLEAN : MarkConversationEnded(w, ok)

ConversationSpec == ConversationInit /\ [][ConversationNext]_vars

(* ---------------------- EmbeddingHandler.generate_embeddings ----------- *)

\* the chunk lists generate_embeddings may be handed: the chunks of a
\* document whose parser produced 0..MaxChunks nodes
EmbedChunkLists(document_id) == { ParsedChunks(document_id, n) : n \in 0..MaxChunks }

\* embedding_client.py lines 50-53 with a failed send logged and dropped, as
\* for a fire-and-forget action
SendWithCallbackSwallowed(send_ok) == [outcome |-> "returned", error |-> NoError]

\* embedding_client.py lines 50-53: the awaited send_action_async_with_callback
\* returns, or its exception leaves generate_embeddings_batch
SendWithCallback(send_ok) ==
    IF send_ok THEN [outcome |-> "returned", error |-> NoError]
               ELSE [outcome |-> "raised", error |-> SendError]

\* embedding_handler.py lines 43-44 and embedding_client.py lines 33-48: the
\* action built for the chunks, texts and chunk_ids in chunk order
BatchAction(chunks, tenant_id, agent_id, task_id, rag_config) ==
    [action_type |-> "embedding.batch_process",
     tenant_id |-> tenant_id,
     agent_id |-> agent_id,
     task_id |-> task_id,
     origin_service |-> "ingestion-service",
     rag_config |-> rag_config,
     callback_action_type |-> "ingestion.embedding_callback",
     texts |-> [i \in 1..Len(chunks) |-> <<"content", chunks[i].chunk_id>>],
     chunk_ids |-> [i \in 1..Len(chunks) |-> chunks[i].chunk_id],
     model |-> rag_config.embedding_model]

\* generate_embeddings and generate_embeddings_batch, called with the
\* parameters of the handler's signature: no chunks, no action (39-40);
\* otherwise one action is built and handed to the broker
GenerateEmbeddings(chunks, tenant_id, agent_id, task_id, rag_config, send_ok) ==
    /\ embedOp.calls < MaxSends
    /\ LET action == BatchAction(chunks, tenant_id, agent_id, task_id, rag_config)
           result == IF chunks = <<>> THEN [outcome |-> "returned", error |-> NoError]
                                      ELSE SendWithCallback(send_ok)
           delivered == chunks # <<>> /\ send_ok
       IN  embedOp' = [calls |-> embedOp.calls + 1,
                       chunks |-> chunks,
                       task_id |-> task_id,
                       send |-> IF chunks = <<>> THEN "none"
                                ELSE IF send_ok THEN "ok" ELSE "failed",
                       outcome |-> result.outcome,
                       error |-> result.error,
                       before |-> IF embedOp.calls = 0 THEN <<>> ELSE embedOp.queue,
                       queue |-> (IF embedOp.calls = 0 THEN <<>> ELSE embedOp.queue)
                                    \o (IF delivered THEN <<action>> ELSE <<>>)]
    /\ UNCHANGED <<normalizer, chats, wire, conversations, messages, workers, statusOp>>
    /\ UNCHANGED <<documents_rag, points>>
    /\ UNCHANGED <<lastSearch, deleteOp, updateOp, agentLaw, storeOp>>
    /\ UNCHANGED configVars
    /\ UNCHANGED ingestionVars

EmbedInit ==
    /\ IngestionIdle
    /\ documents_rag = {}
    /\ points = {}
    /\ SearchIdle /\ DeleteIdle /\ UpdateIdle /\ LawIdle /\ StoreIdle /\ ConfigIdle
    /\ NormalizerIdle /\ ChatIdle /\ ConversationIdle /\ StatusIdle
    /\ embedOp = [calls |-> 0]

EmbedNext ==
    \E task_id \in DocumentIds, rag_config \in RagConfigs, agent_id \in Agents,
       send_ok \in BOOLEAN :
       \E chunks \in EmbedChunkLists(task_id) :
          GenerateEmbeddings(chunks, "tenant_x", agent_id, task_id, rag_config, send_ok)

EmbedSpec == EmbedInit /\ [][EmbedNext]_vars

(* ------------- the service after a restart, and get_task_status -------- *)

\* the task_id of a task an earlier process of the service admitted
PriorTaskId == 0

\* that task as the earlier process left it in the shared KV (the key lives
\* for an hour): its flow had failed at the call of process_document
PriorTask ==
    MainFailed(SetProgress(NewTask(PriorTaskId, "tenant_x", "col_Y",
                                   [embedding_model |-> "model_A",
                                    embedding_dimensions |-> 1536]),
                           PROCESSING, 10, NoError),
               TypeErrorProcessDocument)

\* the task_ids a callback or a status request may name
KnownTaskIds == {PriorTaskId} \cup TaskIds

\* the users a status request may come from
StatusUsers == {UserOf("tenant_x"), "user_v"}

\* lines 241-250 and 257-266 without the comparison of the user
TaskStatusToAnyone(task, task_id, user_id) ==
    <<[task_id |-> task_id, status |-> task.status, percentage |-> task.percentage,
       total_chunks |-> task.total_chunks, processed_chunks |-> task.processed_chunks,
       error |-> task.error]>>

\* lines 241-250 and 257-266: the status dict of a task, for its user only
TaskStatus(task, task_id, user_id) ==
    IF task.user_id = user_id
    THEN <<[task_id |-> task_id, status |-> task.status, percentage |-> task.percentage,
            total_chunks |-> task.total_chunks, processed_chunks |-> task.processed_chunks,
            error |-> task.error]>>
    ELSE None

\* get_task_status: the in-process map first; when the task is not there or
\* is another user's, the shared KV; None when the KV read raises (270-272)
GetTaskStatus(task_id, user_id, redis_ok) ==
    /\ statusOp.calls < MaxStatusCalls
    /\ LET from_tasks == IF task_id \in DOMAIN tasks
                         THEN TaskStatus(tasks[task_id], task_id, user_id)
                         ELSE None
           from_kv == IF redis_ok /\ task_id \in DOMAIN kv
                      THEN TaskStatus(kv[task_id], task_id, user_id)
                      ELSE None
       IN  statusOp' = [calls |-> statusOp.calls + 1,
                        task_id |-> task_id,
                        user_id |-> user_id,
                        source |-> IF from_tasks # None THEN "tasks"
                                   ELSE IF from_kv # None THEN "kv" ELSE "none",
                        returned |-> IF from_tasks # None THEN from_tasks ELSE from_kv]
    /\ UNCHANGED <<normalizer, chats, wire, conversations, messages, workers, embedOp>>
    /\ UNCHANGED <<documents_rag, points>>
    /\ UNCHANGED <<lastSearch, deleteOp, updateOp, agentLaw, storeOp>>
    /\ UNCHANGED configVars
    /\ UNCHANGED ingestionVars

\* a new process of the service: nothing in memory, the earlier task still
\* in the shared KV
RestartInit ==
    /\ tasks = <<>>
    /\ kv = (PriorTaskId :> PriorTask)
    /\ events = [t \in TaskIds |-> <<>>]
    /\ main = [t \in TaskIds |-> NoCoroutine]
    /\ sent = [t \in TaskIds |-> 0]
    /\ handlers = [h \in HandlerIds |-> IdleHandler]
    /\ ncalls = 0
    /\ lastIngest = [outcome |-> "none"]
    /\ documents_rag = {}
    /\ points = {}
    /\ OthersIdle

RestartNext ==
    \/ \E tenant_id \in Tenants, c \in RequestCollections, r \in RagConfigs :
          IngestDocument(tenant_id, c, r)
    \/ \E t \in TaskIds : ProcessDocumentAsync(t)
    \/ \E h \in HandlerIds, t \in KnownTaskIds, d \in CallbackData :
          DeliverCallback(h, t, d)
    \/ \E h \in HandlerIds : HandleEmbeddingCallback(h)

RestartSpec == RestartInit /\ [][RestartNext]_vars

\* status requests while tasks are admitted and processed
StatusNext ==
    \/ \E tenant_id \in Tenants, c \in RequestCollections, r \in RagConfigs :
          IngestDocument(tenant_id, c, r)
    \/ \E t \in TaskIds : ProcessDocumentAsync(t)
    \/ \E t \in KnownTaskIds, user_id \in StatusUsers, redis_ok \in BOOLEAN :
          GetTaskStatus(t, user_id, redis_ok)

StatusSpec == RestartInit /\ [][StatusNext]_vars

(* -------------------- a task that awaits its callback ------------------ *)

\* the task dict as lines 411-434 leave it for a document of n chunks, once
\* process_document and generate_embeddings are called with the arguments
\* they take: the chunks without embedding, EMBEDDING at 50
AwaitingTask(task_id, n, rag_config) ==
    LET task == NewTask(task_id, "tenant_x", "col_Y", rag_config)
    IN  SetProgress([task EXCEPT !.total_chunks = n,
                                 !.chunks = ParsedChunks(task.document_id, n)],
                    EMBEDDING, 50, NoError)

\* the service with one such task: its coroutine has returned, its three
\* progress events were emitted, its batch action was sent unless it has no
\* chunk
CallbackInit ==
    /\ \E n \in 0..MaxChunks, rag_config \in RagConfigs :
          LET task == AwaitingTask(1, n, rag_config)
          IN  /\ tasks = (1 :> task)
              /\ kv = SaveTaskState(<<>>, task)
              /\ events = [t \in TaskIds |->
                             << ProgressEvent(NewTask(1, "tenant_x", "col_Y", rag_config),
                                              PROCESSING, 10, NoError),
                                ProgressEvent(task, CHUNKING, 30, NoError),
                                ProgressEvent(task, EMBEDDING, 50, NoError) >>]
              /\ sent = [t \in TaskIds |-> IF n = 0 THEN 0 ELSE 1]
              /\ lastIngest = [outcome |-> "admitted",
                               call |-> [tenant_id |-> "tenant_x",
                                         collection_id |-> "col_Y",
                                         rag_config |-> rag_config,
                                         existing |-> [kind |-> "empty"]]]
    /\ main = [t \in TaskIds |-> [pc |-> "done", error |-> NoError]]
    /\ handlers = [h \in HandlerIds |-> IdleHandler]
    /\ ncalls = 1
    /\ documents_rag = {}
    /\ points = {}
    /\ OthersIdle

CallbackNext ==
    \/ \E h \in HandlerIds, t \in TaskIds, d \in CallbackData :
          DeliverCallback(h, t, d)
    \/ \E h \in HandlerIds : HandleEmbeddingCallback(h)

CallbackSpec == CallbackInit /\ [][CallbackNext]_vars

(* ------------------------------ properties ---------------------------- *)

Terminal == {COMPLETED, FAILED}

\* the place of a status on the path PROCESSING .. COMPLETED
Rank(status) ==
    CASE status = PROCESSING -> 1
      [] status = CHUNKING -> 2
      [] status = EMBEDDING -> 3
      [] status = STORING -> 4
      [] status = COMPLETED -> 5
      [] status = FAILED -> 6

IsPrefix(s, t) ==
    /\ Len(s) <= Len(t)
    /\ \A i \in 1..Len(s) : s[i] = t[i]

\* the rows of documents_rag of one document
RowsOf(document_id) == {r \in documents_rag : r.document_id = document_id}
\* the points of the vector collection of one document
PointsOf(document_id) == {p \in points : p.document_id = document_id}

\* C1: once a task is COMPLETED or FAILED, no step changes its status, its
\* percentage or its processed_chunks.
C1_TerminalTaskNeverChanges ==
    [][\A t \in DOMAIN tasks :
          tasks[t].status \in Terminal =>
             /\ tasks'[t].status = tasks[t].status
             /\ tasks'[t].percentage = tasks[t].percentage
             /\ tasks'[t].processed_chunks = tasks[t].processed_chunks]_vars

\* C2: every change of a task's status is one step forward on
\* PROCESSING -> CHUNKING -> EMBEDDING -> STORING -> COMPLETED, or a move to
\* FAILED.
C2_StatusMovesForwardOrFails ==
    [][\A t \in DOMAIN tasks :
          tasks'[t].status # tasks[t].status =>
             \/ tasks'[t].status = FAILED
             \/ Rank(tasks'[t].status) = Rank(tasks[t].status) + 1]_vars

\* C3: a COMPLETED task has processed_chunks <= total_chunks, exactly one
\* documents_rag row of its document_id, and exactly processed_chunks vector
\* points of its document_id.
C3_CompletedTaskIsStored ==
    \A t \in DOMAIN tasks :
       tasks[t].status = COMPLETED =>
          /\ tasks[t].processed_chunks <= tasks[t].total_chunks
          /\ Cardinality(RowsOf(tasks[t].document_id)) = 1
          /\ Cardinality(PointsOf(tasks[t].document_id)) = tasks[t].processed_chunks

\* C4: a callback handler whose documents_rag insert failed does not leave its
\* task COMPLETED: when it has written its last status, the task is FAILED.
C4_FailedWriteFailsTask ==
    \A h \in HandlerIds :
       (handlers[h].pc = "emit_completed" /\ ~handlers[h].inserted)
          => tasks[handlers[h].task_id].status = FAILED

\* C5: all documents_rag rows of one (tenant_id, collection_id) carry the same
\* (embedding_model, embedding_dimensions).
C5_OneModelPerCollection ==
    \A r1 \in documents_rag, r2 \in documents_rag :
       (r1.tenant_id = r2.tenant_id /\ r1.collection_id = r2.collection_id)
          => /\ r1.embedding_model = r2.embedding_model
             /\ r1.embedding_dimensions = r2.embedding_dimensions

\* an ingest_document call was made in this step
IngestCalled == ncalls' = ncalls + 1

\* the step left the task map, the shared KV, the coroutines and the stores
\* as they were
NoEffect ==
    UNCHANGED <<tasks, kv, events, documents_rag, points, main, sent, handlers>>

HappyPathEvents(n) ==
    << [status |-> PROCESSING, percentage |-> 10, total_chunks |-> 0,
        processed_chunks |-> 0, error |-> NoError],
       [status |-> CHUNKING, percentage |-> 30, total_chunks |-> n,
        processed_chunks |-> 0, error |-> NoError],
       [status |-> EMBEDDING, percentage |-> 50, total_chunks |-> n,
        processed_chunks |-> 0, error |-> NoError],
       [status |-> STORING, percentage |-> 80, total_chunks |-> n,
        processed_chunks |-> 0, error |-> NoError],
       [status |-> COMPLETED, percentage |-> 100, total_chunks |-> n,
        processed_chunks |-> n, error |-> NoError] >>

\* C8: while no collaborator has failed for a task (the parser and the broker
\* raised nothing, no callback was delivered yet), the progress events emitted
\* for it are the beginning of PROCESSING 10, CHUNKING 30, EMBEDDING 50,
\* STORING 80, COMPLETED 100.
C8_HappyPathEvents ==
    \A t \in DOMAIN tasks :
       (/\ main[t].error \notin {ParseError, SendError}
        /\ \A h \in HandlerIds : handlers[h].pc = "idle")
          => \E n \in 0..MaxChunks : IsPrefix(events[t], HappyPathEvents(n))

\* C9: when a handler whose documents_rag insert failed emits its last progress
\* event, that event is FAILED with a non-empty error and the task record is
\* FAILED with an error.
C9_FailureEndsWithFailedEvent ==
    [][\A h \in HandlerIds :
          (/\ handlers[h].pc = "emit_completed"
           /\ ~handlers[h].inserted
           /\ handlers'[h].pc = "done")
             => LET t == handlers[h].task_id
                    last == events'[t][Len(events'[t])]
                IN  /\ last.status = FAILED
                    /\ last.error # NoError
                    /\ tasks'[t].status = FAILED
                    /\ tasks'[t].error # NoError]_vars

\* C10: a step that moves a task to FAILED keeps the task's percentage.
C10_FailureKeepsPercentage ==
    [][\A t \in DOMAIN tasks :
          (tasks[t].status # FAILED /\ tasks'[t].status = FAILED)
             => tasks'[t].percentage = tasks[t].percentage]_vars

\* C11: a search with a missing tenant_id or a missing agent_id does not run,
\* and every hit of a search that ran belongs to the caller's tenant and lists
\* the caller's agent.
C11_SearchIsScopedToTenantAndAgent ==
    /\ (/\ lastSearch.outcome # "none"
        /\ \/ lastSearch.call.tenant_id = Missing
           \/ lastSearch.call.agent_id = Missing)
          => lastSearch.outcome # "returned"
    /\ lastSearch.outcome = "returned"
          => \A h \in lastSearch.hits :
                /\ h.tenant_id = lastSearch.call.tenant_id
                /\ \E i \in DOMAIN h.agent_ids :
                      h.agent_ids[i] = lastSearch.call.agent_id

\* C12: the hits of a search given collection_ids all lie in those
\* collections, and the hits of a search given document_ids all belong to
\* those documents.
C12_SearchHonoursCollectionsAndDocuments ==
    lastSearch.outcome = "returned"
       => /\ lastSearch.call.collection_ids # {}
               => \A h \in lastSearch.hits :
                     h.collection_id \in lastSearch.call.collection_ids
          /\ lastSearch.call.document_ids # {}
               => \A h \in lastSearch.hits :
                     h.document_id \in lastSearch.call.document_ids

\* a point or a row whose tenant_id, collection_id and document_id are those
\* of the running delete_document call
NamedByDelete(x) ==
    /\ x.tenant_id = deleteOp.call.tenant_id
    /\ x.collection_id = deleteOp.call.collection_id
    /\ x.document_id = deleteOp.call.document_id
DeleteMatchingPoints(stored) == {x \in stored : NamedByDelete(x)}
DeleteMatchingRows(rows) == {x \in rows : NamedByDelete(x)}

\* C13: a delete_document call whose vector delete raised leaves documents_rag
\* as it was, and at no point of a call is the document's row removed while
\* points of the document remain.
C13_VectorsGoBeforeTheRow ==
    deleteOp.pc # "idle"
       => /\ deleteOp.vectors_raised => documents_rag = deleteOp.rows_before
          /\ DeleteMatchingRows(deleteOp.rows_before) \ documents_rag # {}
               => PointsOf(deleteOp.call.document_id) = {}

\* C13, witness: the vector delete raised, the call is over, and the row and
\* the points of the document are both still there.
C13_VectorDeleteFailed ==
    /\ deleteOp.pc = "raised"
    /\ deleteOp.vectors_raised
    /\ DeleteMatchingRows(documents_rag) # {}
    /\ DeleteMatchingPoints(points) # {}

\* C14: at every point of a delete_document call the points and the rows that
\* do not match its tenant_id, collection_id and document_id are as they were,
\* and when the call has returned exactly the matching points and rows are
\* gone.
C14_DeleteRemovesExactlyTheDocument ==
    deleteOp.pc # "idle"
       => /\ points \subseteq deleteOp.points_before
          /\ documents_rag \subseteq deleteOp.rows_before
          /\ deleteOp.points_before \ DeleteMatchingPoints(deleteOp.points_before)
                \subseteq points
          /\ deleteOp.rows_before \ DeleteMatchingRows(deleteOp.rows_before)
                \subseteq documents_rag
          /\ deleteOp.pc = "deleted"
               => /\ DeleteMatchingPoints(points) = {}
                  /\ DeleteMatchingRows(documents_rag) = {}

\* C14, witness: a call returned after removing the points and the row of its
\* document, and the points and the row of another document are still there.
C14_DeletedOneOfTwo ==
    /\ deleteOp.pc = "deleted"
    /\ DeleteMatchingPoints(deleteOp.points_before) # {}
    /\ DeleteMatchingRows(deleteOp.rows_before) # {}
    /\ points # {}
    /\ documents_rag # {}

\* the two updates applied to the agent list were op1 and then op2, on the
\* same agent_ids when `same`
AppliedInOrder(op1, op2, same) ==
    /\ Len(agentLaw.applied) = 2
    /\ agentLaw.applied[1].operation = op1
    /\ agentLaw.applied[2].operation = op2
    /\ same => agentLaw.applied[1].agent_ids = agentLaw.applied[2].agent_ids

\* the chunk's list and the metadata list both hold exactly the agents of S
BothListsAre(S) ==
    /\ Elements(agentLaw.chunk_agents) = S
    /\ Elements(agentLaw.metadata_agents) = S

\* C16, as claimed: set(A) then set(B) leaves B, and add(A) then remove(A)
\* gives back the starting list L, lists compared as sets.
C16_AddThenRemoveIsIdentity ==
    /\ AppliedInOrder("set", "set", FALSE)
          => BothListsAre(Elements(agentLaw.applied[2].agent_ids))
    /\ AppliedInOrder("add", "remove", TRUE)
          => BothListsAre(Elements(agentLaw.start))

\* C16, amended: set(A) then set(B) leaves B; add(A) then remove(A) leaves
\* L minus A; remove(A) then add(A) leaves L plus A; lists compared as sets.
C16_AgentListLaws ==
    /\ AppliedInOrder("set", "set", FALSE)
          => BothListsAre(Elements(agentLaw.applied[2].agent_ids))
    /\ AppliedInOrder("add", "remove", TRUE)
          => BothListsAre(Elements(agentLaw.start)
                            \ Elements(agentLaw.applied[1].agent_ids))
    /\ AppliedInOrder("remove", "add", TRUE)
          => BothListsAre(Elements(agentLaw.start)
                            \cup Elements(agentLaw.applied[1].agent_ids))

\* C16, witness: add(A) then remove(A) was applied to a list that held an
\* agent of A, and the list is no longer the starting list.
C16_AddThenRemoveDroppedAnAgent ==
    /\ AppliedInOrder("add", "remove", TRUE)
    /\ Elements(agentLaw.start) \cap Elements(agentLaw.applied[1].agent_ids) # {}
    /\ Elements(agentLaw.chunk_agents) # Elements(agentLaw.start)

\* C15: when the vector update of an update_document_agents call failed (an
\* exception, or no chunk of the document under the tenant), the call raises
\* and documents_rag is as it was when the call began.
C15_FailedVectorUpdateLeavesTheRow ==
    (updateOp.pc # "idle" /\ updateOp.vector_update_failed)
       => /\ updateOp.pc = "raised"
          /\ documents_rag = updateOp.rows_before

\* C15, witness: the tenant has a row for the document but no chunk of it,
\* the call raised, and the row still holds the agents it held.
C15_NoChunkUnderTheTenant ==
    /\ updateOp.pc = "raised"
    /\ updateOp.vector_update_failed
    /\ Scrolled(points, updateOp.call.tenant_id, updateOp.call.document_id) = {}
    /\ UpdateRowMatch(documents_rag, updateOp.call.tenant_id,
                      updateOp.call.document_id) # {}
    /\ updateOp.call.operation = "set"

\* C17: when every update_document_agents call so far has returned, the
\* metadata.agent_ids of each row holds the same agents as each chunk of the
\* row's document.
C17_MetadataMirrorsChunks ==
    updateOp.pc = "returned"
       => \A r \in documents_rag, c \in points :
             (c.tenant_id = r.tenant_id /\ c.document_id = r.document_id)
                => Elements(c.agent_ids) = Elements(r.metadata_agent_ids)

\* C18: the dict a store_chunks call returns counts what the call did:
\* stored is the number of points written, failed the number of input chunks
\* not written, stored + failed the number of input chunks, stored is never
\* negative, and no chunk without an embedding is written.
C18_StoreChunksCountsWhatItWrote ==
    storeOp.calls > 0
       => /\ storeOp.result.stored = storeOp.written
          /\ storeOp.result.failed = Len(storeOp.chunks) - storeOp.written
          /\ storeOp.result.stored + storeOp.result.failed = Len(storeOp.chunks)
          /\ storeOp.result.stored >= 0
          /\ \A i \in 1..Len(storeOp.chunks) :
                ~storeOp.chunks[i].embedding
                   => \A p \in points \ storeOp.points_before :
                         p.chunk_id # storeOp.chunks[i].chunk_id

\* the chunk ids the last store_chunks call wrote
WrittenIds ==
    IF storeOp.calls > 0 /\ storeOp.written > 0
    THEN {storeOp.new_points[i].chunk_id : i \in 1..Len(storeOp.new_points)}
    ELSE {}

\* C19: the physical collection holds at most one point per chunk_id; a
\* chunk_id a store_chunks call wrote carries the payload of that call; and a
\* call that writes only chunk_ids already stored leaves the number of points
\* as it was.
C19_UpsertIsIdempotentPerChunk ==
    /\ \A p, q \in points : p.chunk_id = q.chunk_id => p = q
    /\ storeOp.calls > 0
          => /\ \A i \in 1..Len(storeOp.new_points) :
                   storeOp.written > 0 => storeOp.new_points[i] \in points
             /\ WrittenIds \subseteq {p.chunk_id : p \in storeOp.points_before}
                   => Cardinality(points) = Cardinality(storeOp.points_before)

\* C19, witness: a chunk stored by an earlier call was stored again with
\* another embedding model, and the collection holds the later point only.
C19_StoredAgainWithAnotherPayload ==
    /\ storeOp.calls = 2
    /\ storeOp.written > 0
    /\ \E p \in storeOp.points_before :
          /\ p.chunk_id \in WrittenIds
          /\ p \notin points
          /\ \E q \in points : q.chunk_id = p.chunk_id
                                 /\ q.embedding_model # p.embedding_model
    /\ Cardinality(points) = Cardinality(storeOp.points_before)

\* C20: once an invalidate_agent_config call issued after the last write of
\* the agents row has returned and no get_agent_configs call is in flight,
\* neither _local_cache nor the shared cache holds a row older than the
\* agents table's.
C20_NoStaleConfigAfterInvalidation ==
    (/\ invalidation.pc = "done"
     /\ invalidation.store = agents[invalidation.agent_id]
     /\ Running = {})
       => /\ local_cache[invalidation.agent_id]
                \in {<<>>} \cup {invalidation.store \o <<old>> : old \in BOOLEAN}
          /\ redis_cache[invalidation.agent_id] \in {<<>>, invalidation.store}

\* an invalidate_agent_config call has returned, no get_agent_configs call ran
\* meanwhile, and none has begun since
InvalidatedAlone ==
    /\ invalidation.pc = "done"
    /\ invalidation.alone
    /\ Begun = invalidation.begun

\* C21: a step of invalidate_agent_config leaves the entries of the other
\* agents in both caches as they were; once the call has returned with no
\* get_agent_configs call running meanwhile, neither cache holds an entry of
\* the agent; and the next get_agent_configs call for the agent, run alone,
\* goes past both caches to the agents table.
C21_InvalidateRemovesTheAgentOnly ==
    [][ /\ invalidation' # invalidation
           => \A b \in Agents \ {invalidation'.agent_id} :
                 /\ local_cache'[b] = local_cache[b]
                 /\ redis_cache'[b] = redis_cache[b]
        /\ InvalidatedAlone'
           => /\ local_cache'[invalidation'.agent_id] = <<>>
              /\ redis_cache'[invalidation'.agent_id] = <<>>
        /\ \A i \in LookupIds :
              (/\ invalidation'.pc = "done"
               /\ invalidation'.alone
               /\ Begun' \ invalidation'.begun = {i}
               /\ lookups'[i].agent_id = invalidation'.agent_id
               /\ lookups'[i].pc = "done")
                 => /\ Len(lookups'[i].trace) >= 2
                    /\ lookups'[i].trace[2] = "L2"
                    /\ \/ Len(lookups'[i].trace) >= 3 /\ lookups'[i].trace[3] = "store"
                       \/ lookups'[i].returned = <<DefaultConfigs>>
      ]_vars

\* C21, witness: both caches held an entry of each agent, one agent was
\* invalidated with no lookup running, and the other agent's entries are
\* still there.
C21_InvalidatedOneOfTwo ==
    /\ InvalidatedAlone
    /\ local_cache[invalidation.agent_id] = <<>>
    /\ redis_cache[invalidation.agent_id] = <<>>
    /\ invalidation.begun = LookupIds
    /\ \E b \in Agents \ {invalidation.agent_id} :
          local_cache[b] # <<>> /\ redis_cache[b] # <<>>

\* the layers a get_agent_configs call goes through, in order
LookupOrder == <<"L1", "L2", "store", "L2_save", "L1_save">>

\* C22: a get_agent_configs call consults _local_cache, the shared cache and
\* the agents table in that order and stops at the first hit.  A hit in
\* _local_cache, whatever its age, is returned with no other layer touched; a
\* hit in the shared cache fills _local_cache and is returned with the agents
\* table untouched; a row read from the agents table is written to the shared
\* cache and then to _local_cache.
C22_LookupOrder ==
    [][ \A i \in LookupIds :
          LET before == lookups[i]
              after == lookups'[i]
              a == after.agent_id
          IN  after # before
                 => /\ IsPrefix(after.trace, LookupOrder)
                    /\ (before.pc = "idle" /\ local_cache[a] # <<>>)
                          => /\ after.pc = "done"
                             /\ after.trace = <<"L1">>
                             /\ after.returned = <<ParseConfigs(local_cache[a][1])>>
                             /\ UNCHANGED <<local_cache, redis_cache>>
                    /\ (before.pc = "idle" /\ local_cache[a] = <<>>)
                          => after.pc = "redis_get"
                    /\ (before.pc = "redis_got" /\ before.data # <<>>)
                          => /\ after.pc = "done"
                             /\ after.trace = <<"L1", "L2">>
                             /\ after.returned = <<ParseConfigs(before.data[1])>>
                             /\ local_cache'[a] = <<before.data[1], FALSE>>
                             /\ UNCHANGED redis_cache
                    /\ (before.pc = "redis_got" /\ before.data = <<>>)
                          => after.pc = "fetch"
                    /\ (before.pc = "save_redis" /\ after.pc # "done")
                          => /\ redis_cache'[a] = before.data
                             /\ after.pc = "save_local"
                    /\ before.pc = "save_local"
                          => /\ local_cache'[a] = <<before.data[1], FALSE>>
                             /\ after.pc = "done"
                             /\ after.trace = LookupOrder
                             /\ after.returned = <<ParseConfigs(before.data[1])>>
      ]_vars

\* C22, witness: one call read the row from the agents table and filled both
\* caches, the entry of _local_cache grew older than the TTL, and another call
\* for the agent was served from _local_cache.
C22_OldLocalEntryServed ==
    \E i, j \in LookupIds :
       /\ lookups[i].pc = "done" /\ lookups[i].trace = LookupOrder
       /\ lookups[j].pc = "done" /\ lookups[j].trace = <<"L1">>
       /\ lookups[j].agent_id = lookups[i].agent_id
       /\ lookups[j].returned = lookups[i].returned
       /\ local_cache[lookups[j].agent_id] # <<>>
       /\ local_cache[lookups[j].agent_id][2]
       /\ redis_cache[lookups[j].agent_id] # <<>>

\* C23: a get_agent_configs call never raises and never returns a row that
\* _parse_configs rejects: a failed cache get, a failed or empty read of the
\* agents table, a failed cache save and an unparsable row all end the call
\* with the default configs, the failures leaving both caches as they were;
\* and neither cache ever holds the default configs.
C23_ErrorsReturnDefaults ==
    [][ /\ \A i \in LookupIds :
             LET before == lookups[i]
                 after == lookups'[i]
                 a == after.agent_id
             IN  after # before
                    => /\ after.pc = "done"
                          => /\ Len(after.returned) = 1
                             /\ \/ after.returned[1] = DefaultConfigs
                                \/ after.returned[1].parsable
                       /\ (before.pc \in {"redis_get", "fetch", "save_redis"}
                             /\ after.pc = "done")
                          => /\ after.returned = <<DefaultConfigs>>
                             /\ UNCHANGED <<local_cache, redis_cache>>
                       /\ (before.pc = "fetch" /\ agents[a] = <<>>)
                          => after.pc = "done"
                       /\ (after.pc = "done" /\ before.data # <<>>
                             /\ ~before.data[1].parsable)
                          => after.returned = <<DefaultConfigs>>
                       /\ (before.pc = "idle" /\ local_cache[a] # <<>>
                             /\ ~local_cache[a][1].parsable)
                          => after.returned = <<DefaultConfigs>>
        /\ \A a \in Agents :
              /\ local_cache'[a] # <<>> => local_cache'[a][1] # DefaultConfigs
              /\ redis_cache'[a] # <<>> => redis_cache'[a][1] # DefaultConfigs
      ]_vars

\* C23, witness: one call found no usable config (its cache get or its read
\* of the agents table failed) and another read a row _parse_configs rejects;
\* both returned the defaults, and the rejected row, not the defaults, is what
\* the caches hold.
C23_DefaultsReturnedNotCached ==
    \E i, j \in LookupIds :
       /\ lookups[i].pc = "done"
       /\ lookups[i].trace \in {<<"L1", "L2">>, <<"L1", "L2", "store">>}
       /\ lookups[i].returned = <<DefaultConfigs>>
       /\ lookups[j].pc = "done"
       /\ lookups[j].trace = LookupOrder
       /\ lookups[j].returned = <<DefaultConfigs>>
       /\ local_cache[lookups[j].agent_id] # <<>>
       /\ ~local_cache[lookups[j].agent_id][1].parsable

\* C25: a row spelled in camelCase and the same row spelled in snake_case
\* give the same outcome of get_agent_config: both fail, or both give an
\* AgentConfig with the same ids, name and three config blocks.
C25_CasingDoesNotMatter ==
    normalizer.pc = "done" => normalizer.config = normalizer.other

\* C25, witness: a camelCase row whose query block is an empty map, whose
\* system prompt is the empty string and whose isActive is false gave an
\* AgentConfig.
C25_CamelRowWithFalsyValues ==
    /\ normalizer.pc = "done"
    /\ normalizer.camel
    /\ normalizer.row.query_config = <<EmptyDict>>
    /\ normalizer.row.system_prompt = <<"">>
    /\ normalizer.row.is_active = <<FALSE>>
    /\ normalizer.config # <<>>

\* C24: every AgentConfig get_agent_config produces has a non-empty
\* query_config.system_prompt_template and a non-empty
\* rag_config.collection_ids, whatever the row stores.
C24_PromptAndCollectionsNeverEmpty ==
    (normalizer.pc = "done" /\ normalizer.config # <<>>)
       => /\ normalizer.config[1].query_config.system_prompt_template # ""
          /\ normalizer.config[1].rag_config.collection_ids # <<>>

\* the actions sent to the execution service for chat message i
Dispatched(i) == { k \in DOMAIN wire : wire[k].to = "execution" /\ wire[k].chat = i }

\* C26: every dispatched chat message has exactly one action on the wire; its
\* action_type is execution.chat.advance exactly when the request carried a
\* non-empty tool list and execution.chat.simple otherwise, its callback is
\* orchestrator.chat.response, its task, session, tenant and agent are those
\* of the session state, and a chat_processing event with the same mode and
\* task_id reached the session before the action was sent
C26_DispatchFollowsTheNotice ==
    \A i \in ChatIds :
        /\ Cardinality(Dispatched(i)) = IF chats[i].pc = "done" THEN 1 ELSE 0
        /\ \A k \in Dispatched(i) :
              LET tools == wire[k].tools
                  advance == tools # None /\ tools[1] # <<>>
              IN  /\ wire[k].action_type = IF advance THEN "execution.chat.advance"
                                                      ELSE "execution.chat.simple"
                  /\ wire[k].callback_action_type = "orchestrator.chat.response"
                  /\ wire[k].task_id = chats[i].task_id
                  /\ wire[k].task_id # None
                  /\ wire[k].session_id = <<chats[i].session_state.session_id>>
                  /\ wire[k].tenant_id = <<chats[i].session_state.tenant_id>>
                  /\ wire[k].agent_id = <<chats[i].session_state.agent_id>>
                  /\ \E j \in 1..(k - 1) :
                        /\ wire[j].to = "session"
                        /\ wire[j].message_type = "chat_processing"
                        /\ wire[j].session_id = chats[i].session_state.session_id
                        /\ wire[j].task_id = wire[k].task_id
                        /\ wire[j].mode = (IF advance THEN "advance" ELSE "simple")

\* a message with a tool and one with an empty tool list were both dispatched,
\* the first on a session whose agent is not the one the client named
C26_BothModesDispatched ==
    \E i, j \in ChatIds :
        /\ chats[i].pc = "done" /\ chats[i].mode = "advance"
        /\ chats[i].session_state.agent_id = "agent_a"
        /\ chats[j].pc = "done" /\ chats[j].mode = "simple"
        /\ \E k \in Dispatched(j) : wire[k].tools = <<<<>>>>
        /\ \E k \in Dispatched(i) : \E l \in Dispatched(j) : k < l

\* the action worker w took last is a conversation.message.create
Creates(w) ==
    workers[w].handled > 0 /\ workers[w].action.action_type = "conversation.message.create"

\* the messages written for the action worker w took last
WrittenBy(w) ==
    { k \in DOMAIN messages :
        messages[k].id[1] = w /\ messages[k].id[2] = workers[w].handled }

\* C27: a conversation.message.create that lacks conversation_id,
\* user_message, agent_message, or the session or agent of its context is
\* skipped: no message is written for it, and the handler does not return
\* with success
C27_IncompleteActionIsSkipped ==
    \A w \in WorkerIds :
        /\ Creates(w)
        /\ \/ ~Present(workers[w].action.conversation_id)
           \/ ~Present(workers[w].action.user_message)
           \/ ~Present(workers[w].action.agent_message)
           \/ workers[w].action.session_id = None
           \/ workers[w].action.agent_id = None
        => /\ WrittenBy(w) = {}
           /\ workers[w].pc = "idle" => ~workers[w].result.success

\* the conversations rows with this id
RowsWithId(conversation_id) == { r \in conversations : r.id = conversation_id }

\* C28: no two conversations rows share an id, and once a
\* conversation.message.create has been handled with success there is exactly
\* one row with its conversation_id and exactly two messages written for it
\* in that conversation, the user's before the assistant's
C28_OneRowAndTwoMessages ==
    /\ \A r \in conversations : RowsWithId(r.id) = {r}
    /\ \A w \in WorkerIds :
          Creates(w) /\ workers[w].pc = "idle" /\ workers[w].result.success
          => LET action == workers[w].action
                 result == workers[w].result
             IN  /\ result.conversation_id = action.conversation_id[1]
                 /\ Cardinality(RowsWithId(result.conversation_id)) = 1
                 /\ Cardinality(WrittenBy(w)) = 2
                 /\ \E j, k \in WrittenBy(w) :
                       /\ j < k
                       /\ messages[j] = [id |-> result.user_message_id,
                                         conversation_id |-> result.conversation_id,
                                         role |-> "user",
                                         content |-> action.user_message[1]]
                       /\ messages[k] = [id |-> result.agent_message_id,
                                         conversation_id |-> result.conversation_id,
                                         role |-> "assistant",
                                         content |-> action.agent_message[1]]

\* one worker has saved the first exchange of a conversation while the other,
\* which looked for the same conversation and did not find it, is about to
\* insert it
C28_SavedWhileTheOtherInserts ==
    \E w, v \in WorkerIds :
        /\ Creates(w) /\ workers[w].pc = "idle" /\ workers[w].result.success
        /\ Creates(v) /\ workers[v].pc = "insert"
        /\ workers[v].args.conversation_id = workers[w].result.conversation_id
        /\ Handled = 2
        /\ Len(messages) = 2

\* the active conversations rows of a tenant's session with an agent
ActiveRows(tenant_id, session_id, agent_id) ==
    { r \in conversations : ActiveRowOf(r, tenant_id, session_id, agent_id) }

\* C29: at most one conversations row is active per (tenant_id, session_id,
\* agent_id)
C29_OneActiveRowPerSession ==
    \A r \in conversations :
        Cardinality(ActiveRows(r.tenant_id, r.session_id, r.agent_id)) <= 1

\* C30: when a conversation.session.closed has been handled with success, no
\* row of its tenant, session and agent is active, every row it changed is
\* one of those and is now inactive with ended_at set, and the rows of
\* another tenant, session or agent and the rows that were already inactive
\* are as they were
C30_ClosesTheSessionOnly ==
    [][\A w \in WorkerIds :
          /\ workers[w].pc = "update"
          /\ workers'[w].pc = "idle"
          /\ workers'[w].result.success
          => LET a == workers[w].args
                 mine(r) == /\ r.tenant_id = a.tenant_id
                            /\ r.session_id = a.session_id
                            /\ r.agent_id = a.agent_id
             IN  /\ \A r \in conversations' : mine(r) => ~r.is_active
                 /\ \A r \in conversations :
                       IF mine(r) /\ r.is_active
                       THEN \E e \in conversations' :
                               /\ e.ended_at # None
                               /\ e = [r EXCEPT !.is_active = FALSE, !.ended_at = e.ended_at]
                       ELSE r \in conversations'
                 /\ Cardinality(conversations') = Cardinality(conversations)
                 /\ messages' = messages]_vars

\* a session was closed with success while a conversation of another agent
\* was active and an earlier conversation of the same session was already
\* closed
C30_ClosedBesideOtherRows ==
    \E w \in WorkerIds :
        /\ workers[w].handled > 0
        /\ workers[w].action.action_type = "conversation.session.closed"
        /\ workers[w].pc = "idle"
        /\ workers[w].result.success
        /\ EarlierConversation \in conversations
        /\ \E r \in conversations :
              /\ r.agent_id = workers[w].args.agent_id
              /\ r.session_id = workers[w].args.session_id
              /\ r.ended_at \notin {None, <<0>>}
        /\ \E r \in conversations :
              /\ r.agent_id # workers[w].args.agent_id
              /\ r.is_active

C40_BothMessagesOrNeither ==
    \A w \in WorkerIds :
        Creates(w) /\ workers[w].pc = "idle"
        => Cardinality(WrittenBy(w)) \in {0, 2}

C32_CallbackFallsBackToTheKv ==
    [][\A h \in HandlerIds :
          handlers[h].pc = "idle" /\ handlers'[h].pc = "done"
          => /\ handlers'[h].task_id \notin DOMAIN kv
             /\ UNCHANGED <<tasks, kv, points, documents_rag>>]_vars

\* C39: get_task_status returns nothing to a user other than the one of the
\* task, whether the task is in the in-process map or in the shared KV, and
\* nothing for a task_id that is in neither
C39_StatusOnlyForTheTasksUser ==
    statusOp.calls > 0
    => LET t == statusOp.task_id
       IN  /\ t \in DOMAIN tasks /\ tasks[t].user_id # statusOp.user_id
              => statusOp.returned = None
           /\ t \in DOMAIN kv /\ kv[t].user_id # statusOp.user_id
              => statusOp.returned = None
           /\ t \notin (DOMAIN tasks \cup DOMAIN kv) => statusOp.returned = None
           /\ statusOp.returned # None
              => /\ statusOp.returned[1].task_id = t
                 /\ statusOp.user_id = UserOf("tenant_x")

\* another user asked for a task that is in the in-process map, after the
\* status of the task of the earlier process had been asked for
C39_AnotherUserAsked ==
    /\ statusOp.calls = 2
    /\ statusOp.user_id = "user_v"
    /\ statusOp.task_id \in DOMAIN tasks
    /\ statusOp.task_id \in DOMAIN kv
    /\ statusOp.returned = None

\* the chunks of the tenant's document in a store
ChunksOf(stored, tenant_id, document_id) ==
    {r \in stored : r.tenant_id = tenant_id /\ r.document_id = document_id}

\* C38: update_chunk_agents is all-or-nothing over the chunks of a document
\* that one scroll returns in full: a call that changes a chunk returns True
\* and leaves all chunks of the document with the same agents, so a call that
\* returns False changed no chunk
C38_ChunkUpdateIsAllOrNothing ==
    [][points' # points
       => LET call == updateOp'.call
              before == ChunksOf(points, call.tenant_id, call.document_id)
              after == ChunksOf(points', call.tenant_id, call.document_id)
          IN  SumChunks(before) <= ScrollLimit
              => /\ ~updateOp'.vector_update_failed
                 /\ \A r1, r2 \in after :
                       Elements(r1.agent_ids) = Elements(r2.agent_ids)]_vars

\* C36: in every documents_rag row the legacy agent_id is an agent of
\* metadata.agent_ids when that list is not empty, and the throwaway UUID
\* when it is empty, after every update_document_agents
C36_ScalarAgentIsOfTheList ==
    \A r \in documents_rag :
       IF r.metadata_agent_ids = <<>>
       THEN r.agent_id = ThrowawayAgent
       ELSE r.agent_id \in Elements(r.metadata_agent_ids)

\* C37: when the relational-store query of the consistency check fails,
\* ingest_document does not reject: the task is admitted, written to the map
\* and the KV, and its processing coroutine is created
C37_FailedQueryAdmits ==
    [][(IngestCalled /\ lastIngest'.call.existing.kind = "error")
       => /\ lastIngest'.outcome = "admitted"
          /\ ncalls' \in DOMAIN tasks' \ DOMAIN tasks
          /\ ncalls' \in DOMAIN kv'
          /\ main[ncalls'].pc = "none"
          /\ main'[ncalls'].pc = "start"]_vars

\* the query failed while the collection held a row of another model, and the
\* admitted task's coroutine has run
C37_AdmittedPastADifferingRow ==
    /\ lastIngest.outcome = "admitted"
    /\ lastIngest.call.existing.kind = "error"
    /\ \E r \in documents_rag :
          /\ r.tenant_id = lastIngest.call.tenant_id
          /\ r.collection_id = lastIngest.call.collection_id
          /\ ModelDiffers(r, lastIngest.call.rag_config)
    /\ main[ncalls].pc \notin {"none", "start"}

\* the chunks of a list that carry an embedding
Embedded(chunks) == Len(chunks) - Len(WithoutEmbedding(chunks))

====
